---- MODULE Spec2Model ----
(***************************************************************************)
(* A model of differ, a line-of-code churn reporter: the diff parser       *)
(* (internal/parser), the path classifier (internal/classify), the record  *)
(* filter (internal/filter) and the aggregation and rendering done by      *)
(* run() in cmd/differ/main.go.                                            *)
(*                                                                         *)
(* Go strings are TLA+ strings; positions are 1-based here where Go's are  *)
(* 0-based.  Three specifications share the module's variables:            *)
(*   SpecClassify  calls to Classifier.Classify on one Classifier          *)
(*   SpecParse     one call of parser.Parse, one scanned line per step     *)
(*   SpecHunks     the same call, on the lines of files' hunks             *)
(*   SpecHeaders   the same call, on header lines of several forms         *)
(*   Spec          one invocation of run(), from Parse to the rendering    *)
(*   SpecRun       one invocation of run(), from its entry on              *)
(***************************************************************************)
EXTENDS Integers, Sequences, FiniteSets, TLC

VARIABLES
    customCategories,  \* Classifier.customCategories
    calls,             \* the Classify calls made so far, with their results
    emptyMode,         \* Parse's emptyMode argument
    input,             \* the lines read from Parse's reader so far
    stats,             \* Parse's local stats
    current,           \* Parse's local current: << >> is nil, <<r>> is &r
    inBinary,          \* Parse's local inBinary
    parsePc,           \* where Parse is: "idle", "scan", "returned"
    parseRet,          \* Parse's return value [stats, err]
    readFailed,        \* whether a Read of Parse's reader returned an error
    pc,                \* where run() is
    cmdline,           \* the flags and arguments given on the command line
    files,             \* the global and the repo-local config file
    opts,              \* run()'s opts, the flags as cobra parsed them
    cfg,               \* run()'s cfg, the configuration config.Load resolved
    gitLog,            \* the git commands run so far, with their outcomes
    resolveRet,        \* ResolveRefs' return value [refRange, err]
    refRange,          \* run()'s refRange
    worktreeMode,      \* run()'s worktreeMode
    diff,              \* the lines git diff writes to diffResult.Stdout
    diffExit,          \* what diffResult.Wait() returned: "", "ok" or "failed"
    errOut,            \* the messages written to standard error
    parsed,            \* run()'s parsed
    filtered,          \* run()'s filtered
    summary,           \* run()'s summary (output.Summary), less its Meta
    meta,              \* run()'s summary.Meta: Base, Head and Empty
    rendered,          \* what was written to standard output
    exitCode           \* the process exit code, -1 while running

vars == <<customCategories, calls, emptyMode, input, stats, current, inBinary,
          parsePc, parseRet, readFailed, pc, cmdline, files, opts, cfg, gitLog,
          resolveRet, refRange, worktreeMode, diff, diffExit, errOut, parsed,
          filtered, summary, meta, rendered, exitCode>>

classifyVars == <<calls>>
parseVars == <<emptyMode, input, stats, current, inBinary, parsePc, parseRet,
               readFailed>>
gitVars == <<cmdline, files, gitLog, resolveRet, refRange, worktreeMode>>
setupVars == <<gitVars, diffExit, errOut>>
runVars == <<pc, opts, cfg, diff, parsed, filtered, summary, rendered, exitCode,
             meta, setupVars>>

----------------------------------------------------------------------------
(* Bounds *)

MaxCalls == 2      \* Classify calls in one behaviour of SpecClassify
MaxLines == 4      \* lines scanned in one behaviour of SpecParse
MaxDiffLines == 3  \* lines of the diff handed to run() in Spec

----------------------------------------------------------------------------
(* The strings package *)

Min(S) == CHOOSE x \in S : \A y \in S : x <= y
Max(S) == CHOOSE x \in S : \A y \in S : x >= y

HasPrefix(s, prefix) ==
    Len(s) >= Len(prefix) /\ SubSeq(s, 1, Len(prefix)) = prefix

HasSuffix(s, suffix) ==
    Len(s) >= Len(suffix) /\ SubSeq(s, Len(s) - Len(suffix) + 1, Len(s)) = suffix

\* The set of positions at which sub occurs in s.
Occurrences(s, sub) ==
    {i \in 1..(Len(s) - Len(sub) + 1) : SubSeq(s, i, i + Len(sub) - 1) = sub}

\* strings.Index, 1-based; 0 when sub does not occur.
Index(s, sub) ==
    IF Occurrences(s, sub) = {} THEN 0 ELSE Min(Occurrences(s, sub))

\* strings.LastIndex, 1-based; 0 when sub does not occur.
LastIndex(s, sub) ==
    IF Occurrences(s, sub) = {} THEN 0 ELSE Max(Occurrences(s, sub))

Contains(s, sub) == Index(s, sub) # 0

\* strings.ContainsAny(s, chars), chars given as a set of one-character strings.
ContainsAny(s, chars) == \E i \in 1..Len(s) : SubSeq(s, i, i) \in chars

TrimPrefix(s, prefix) ==
    IF HasPrefix(s, prefix) THEN SubSeq(s, Len(prefix) + 1, Len(s)) ELSE s

TrimSuffix(s, suffix) ==
    IF HasSuffix(s, suffix) THEN SubSeq(s, 1, Len(s) - Len(suffix)) ELSE s

\* strings.SplitN(s, sep, 2): <<s>> when sep does not occur, else the parts
\* before and after its first occurrence.
SplitN2(s, sep) ==
    LET i == Index(s, sep)
    IN  IF i = 0 THEN <<s>>
        ELSE <<SubSeq(s, 1, i - 1), SubSeq(s, i + Len(sep), Len(s))>>

WhiteSpace == {" ", "\t", "\n", "\r", "\f"}

\* strings.TrimSpace
TrimSpace(s) ==
    LET NonWs == {i \in 1..Len(s) : SubSeq(s, i, i) \notin WhiteSpace}
    IN  IF NonWs = {} THEN "" ELSE SubSeq(s, Min(NonWs), Max(NonWs))

UpperToLower ==
    [c \in {"A", "B", "C", "D", "E", "F", "G", "H", "I", "J", "K", "L", "M",
            "N", "O", "P", "Q", "R", "S", "T", "U", "V", "W", "X", "Y", "Z"} |->
       CASE c = "A" -> "a" [] c = "B" -> "b" [] c = "C" -> "c" [] c = "D" -> "d"
         [] c = "E" -> "e" [] c = "F" -> "f" [] c = "G" -> "g" [] c = "H" -> "h"
         [] c = "I" -> "i" [] c = "J" -> "j" [] c = "K" -> "k" [] c = "L" -> "l"
         [] c = "M" -> "m" [] c = "N" -> "n" [] c = "O" -> "o" [] c = "P" -> "p"
         [] c = "Q" -> "q" [] c = "R" -> "r" [] c = "S" -> "s" [] c = "T" -> "t"
         [] c = "U" -> "u" [] c = "V" -> "v" [] c = "W" -> "w" [] c = "X" -> "x"
         [] c = "Y" -> "y" [] c = "Z" -> "z"]

RECURSIVE ToLower(_)
\* strings.ToLower on ASCII text
ToLower(s) ==
    IF s = "" THEN ""
    ELSE (IF Head(s) \in DOMAIN UpperToLower THEN UpperToLower[Head(s)] ELSE Head(s))
         \o ToLower(Tail(s))

----------------------------------------------------------------------------
(* The path/filepath package, as built for a system whose separator is '/' *)

Separator == "/"

RECURSIVE ToSlash(_)
\* filepath.ToSlash: every Separator becomes a slash.
ToSlash(path) ==
    IF path = "" THEN ""
    ELSE (IF Head(path) = Separator THEN "/" ELSE Head(path)) \o ToSlash(Tail(path))

\* filepath.Base: the last element of path, trailing separators removed first.
Base(path) ==
    IF path = "" THEN "."
    ELSE LET NonSep == {i \in 1..Len(path) : SubSeq(path, i, i) # Separator}
         IN  IF NonSep = {} THEN Separator
             ELSE LET stripped == SubSeq(path, 1, Max(NonSep))
                      i == LastIndex(stripped, Separator)
                  IN  SubSeq(stripped, i + 1, Len(stripped))

\* filepath.Ext: the suffix starting at the last dot of the last element.
Ext(path) ==
    LET Dots == {i \in 1..Len(path) :
                    /\ SubSeq(path, i, i) = "."
                    /\ \A j \in i..Len(path) : SubSeq(path, j, j) # Separator}
    IN  IF Dots = {} THEN "" ELSE SubSeq(path, Max(Dots), Len(path))

RECURSIVE Match(_, _)
\* filepath.Match for patterns made of literals, '*' and '?' (the override
\* patterns drawn below contain no character class and no escape).
Match(pattern, name) ==
    IF pattern = "" THEN name = ""
    ELSE IF Head(pattern) = "*"
         THEN \/ Match(Tail(pattern), name)
              \/ /\ name # ""
                 /\ Head(name) # Separator
                 /\ Match(pattern, Tail(name))
    ELSE IF Head(pattern) = "?"
         THEN name # "" /\ Head(name) # Separator /\ Match(Tail(pattern), Tail(name))
    ELSE name # "" /\ Head(name) = Head(pattern) /\ Match(Tail(pattern), Tail(name))

----------------------------------------------------------------------------
(* internal/classify *)

Generated == "generated"
Docs == "docs"
Tests == "tests"
Source == "source"
Other == "other"

Categories == {Generated, Docs, Tests, Source, Other}

generatedDirs == <<"vendor/", "node_modules/", "dist/", "build/">>

lockfiles ==
    {"package-lock.json", "pnpm-lock.yaml", "yarn.lock", "go.sum", "cargo.lock",
     "gemfile.lock", "composer.lock", "poetry.lock", "pipfile.lock", "bun.lockb",
     "flake.lock"}

docExtensions == {".md", ".markdown", ".mdx", ".rst", ".adoc", ".txt"}

docDirs == <<"docs/", "documentation/">>

testDirs == <<"test/", "tests/", "spec/", "specs/", "__tests__/">>

\* The language of each built-in source extension.
sourceExtensions ==
    [e \in {".go"} |-> "Go"] @@ [e \in {".rs"} |-> "Rust"]
    @@ [e \in {".py", ".pyi", ".pyw"} |-> "Python"]
    @@ [e \in {".js", ".mjs", ".cjs"} |-> "JavaScript"]
    @@ [e \in {".ts", ".mts", ".cts"} |-> "TypeScript"]
    @@ [e \in {".jsx"} |-> "JSX"] @@ [e \in {".tsx"} |-> "TSX"]
    @@ [e \in {".java"} |-> "Java"]
    @@ [e \in {".kt", ".kts"} |-> "Kotlin"]
    @@ [e \in {".c", ".h"} |-> "C"]
    @@ [e \in {".cpp", ".cc", ".cxx", ".hpp", ".hxx", ".hh"} |-> "C++"]
    @@ [e \in {".cs"} |-> "C#"] @@ [e \in {".php"} |-> "PHP"]
    @@ [e \in {".rb", ".rake"} |-> "Ruby"]
    @@ [e \in {".swift"} |-> "Swift"]
    @@ [e \in {".scala", ".sc"} |-> "Scala"]
    @@ [e \in {".sh", ".bash", ".zsh"} |-> "Shell"]
    @@ [e \in {".lua"} |-> "Lua"] @@ [e \in {".pl", ".pm"} |-> "Perl"]
    @@ [e \in {".r"} |-> "R"] @@ [e \in {".dart"} |-> "Dart"]
    @@ [e \in {".ex", ".exs"} |-> "Elixir"]
    @@ [e \in {".erl", ".hrl"} |-> "Erlang"]
    @@ [e \in {".hs", ".lhs"} |-> "Haskell"]
    @@ [e \in {".ml", ".mli"} |-> "OCaml"]
    @@ [e \in {".clj", ".cljs", ".cljc"} |-> "Clojure"]
    @@ [e \in {".groovy"} |-> "Groovy"] @@ [e \in {".zig"} |-> "Zig"]
    @@ [e \in {".nim"} |-> "Nim"] @@ [e \in {".v"} |-> "V"]
    @@ [e \in {".sql"} |-> "SQL"]
    @@ [e \in {".html", ".htm"} |-> "HTML"]
    @@ [e \in {".css", ".scss", ".sass", ".less"} |-> "CSS"]
    @@ [e \in {".vue"} |-> "Vue"] @@ [e \in {".svelte"} |-> "Svelte"]
    @@ [e \in {".yaml", ".yml"} |-> "YAML"]
    @@ [e \in {".toml"} |-> "TOML"] @@ [e \in {".json"} |-> "JSON"]
    @@ [e \in {".xml"} |-> "XML"] @@ [e \in {".proto"} |-> "Protobuf"]
    @@ [e \in {".graphql", ".gql"} |-> "GraphQL"]
    @@ [e \in {".tf", ".tfvars"} |-> "Terraform"]

\* A path lies under dir when dir is its prefix or follows a slash in it.
UnderDir(normalized, dir) ==
    HasPrefix(normalized, dir) \/ Contains(normalized, "/" \o dir)

\* The override extension e as compared: lowercased, with a leading dot.
cmpExt(e) ==
    IF HasPrefix(ToLower(e), ".") THEN ToLower(e) ELSE "." \o ToLower(e)

\* One override pattern against a path, as a glob on the filename only.
matchesPatternGlobOnly(normalized, base, pattern) ==
    Match(ToSlash(pattern), base)

\* One override pattern against a path, in its three forms.
matchesPattern(normalized, base, pattern) ==
    LET p == ToSlash(pattern)
    IN  \/ Match(p, base)
        \/ HasSuffix(p, "/") /\ UnderDir(normalized, p)
        \/ /\ ~ContainsAny(p, {"*", "?", "["})
           /\ ~HasSuffix(p, "/")
           /\ Contains(normalized, p)

matchesCustom(normalized, base, cc) ==
    \/ \E i \in 1..Len(cc.Patterns) : matchesPattern(normalized, base, cc.Patterns[i])
    \/ \E i \in 1..Len(cc.Extensions) :
          ToLower(Ext(base)) = cmpExt(cc.Extensions[i])

isGenerated(custom, normalized, base) ==
    \/ Generated \in DOMAIN custom /\ matchesCustom(normalized, base, custom[Generated])
    \/ \E i \in 1..Len(generatedDirs) : UnderDir(normalized, generatedDirs[i])
    \/ ToLower(base) \in lockfiles

\* isDocs with a docs override standing in place of the built-in rules.
isDocsOverrideReplaces(custom, normalized, ext) ==
    IF Docs \in DOMAIN custom
    THEN matchesCustom(normalized, Base(normalized), custom[Docs])
    ELSE \/ ext \in docExtensions
         \/ \E i \in 1..Len(docDirs) : UnderDir(normalized, docDirs[i])

isDocs(custom, normalized, ext) ==
    \/ Docs \in DOMAIN custom /\ matchesCustom(normalized, Base(normalized), custom[Docs])
    \/ ext \in docExtensions
    \/ \E i \in 1..Len(docDirs) : UnderDir(normalized, docDirs[i])

isTests(custom, normalized, base) ==
    LET lower == ToLower(base)
    IN  \/ Tests \in DOMAIN custom /\ matchesCustom(normalized, base, custom[Tests])
        \/ \E i \in 1..Len(testDirs) : UnderDir(normalized, testDirs[i])
        \/ Contains(lower, ".test.") \/ Contains(lower, ".spec.")
        \/ HasSuffix(lower, "_test.go")
        \/ /\ HasSuffix(lower, ".py")
           /\ \/ HasPrefix(TrimSuffix(lower, ".py"), "test_")
              \/ HasSuffix(TrimSuffix(lower, ".py"), "_test")
        \/ HasSuffix(base, "Test.java") \/ HasSuffix(base, "Tests.java")
        \/ HasSuffix(base, "Test.kt")
        \/ /\ HasSuffix(lower, ".rb")
           /\ \/ HasSuffix(TrimSuffix(lower, ".rb"), "_spec")
              \/ HasPrefix(TrimSuffix(lower, ".rb"), "test_")

isSource(custom, ext) ==
    \/ /\ Source \in DOMAIN custom
       /\ \E i \in 1..Len(custom[Source].Extensions) :
             ext = cmpExt(custom[Source].Extensions[i])
    \/ ext \in DOMAIN sourceExtensions

detectLanguage(ext) ==
    IF ext \in DOMAIN sourceExtensions THEN sourceExtensions[ext] ELSE ""

\* Classify with the tests check moved before the docs check.
ClassifyTestsBeforeDocs(custom, path) ==
    LET normalized == ToSlash(path)
        base == Base(path)
        ext == ToLower(Ext(base))
    IN  IF isGenerated(custom, normalized, base)
        THEN [category |-> Generated, language |-> detectLanguage(ext)]
        ELSE IF isTests(custom, normalized, base)
        THEN [category |-> Tests, language |-> detectLanguage(ext)]
        ELSE IF isDocs(custom, normalized, ext)
        THEN [category |-> Docs, language |-> detectLanguage(ext)]
        ELSE IF isSource(custom, ext)
        THEN [category |-> Source, language |-> detectLanguage(ext)]
        ELSE [category |-> Other, language |-> detectLanguage(ext)]

\* Classify without the final fallback: an unmatched path gets no category.
ClassifyNoFallback(custom, path) ==
    LET normalized == ToSlash(path)
        base == Base(path)
        ext == ToLower(Ext(base))
    IN  IF isGenerated(custom, normalized, base)
        THEN [category |-> Generated, language |-> detectLanguage(ext)]
        ELSE IF isDocs(custom, normalized, ext)
        THEN [category |-> Docs, language |-> detectLanguage(ext)]
        ELSE IF isTests(custom, normalized, base)
        THEN [category |-> Tests, language |-> detectLanguage(ext)]
        ELSE IF isSource(custom, ext)
        THEN [category |-> Source, language |-> detectLanguage(ext)]
        ELSE [category |-> "", language |-> detectLanguage(ext)]

\* Classify detecting the language only on the source and tests branches.
ClassifyLanguageOfCodeOnly(custom, path) ==
    LET normalized == ToSlash(path)
        base == Base(path)
        ext == ToLower(Ext(base))
    IN  IF isGenerated(custom, normalized, base)
        THEN [category |-> Generated, language |-> ""]
        ELSE IF isDocs(custom, normalized, ext)
        THEN [category |-> Docs, language |-> ""]
        ELSE IF isTests(custom, normalized, base)
        THEN [category |-> Tests, language |-> detectLanguage(ext)]
        ELSE IF isSource(custom, ext)
        THEN [category |-> Source, language |-> detectLanguage(ext)]
        ELSE [category |-> Other, language |-> ""]

\* Classifier.Classify on a classifier whose customCategories is custom.
Classify(custom, path) ==
    LET normalized == ToSlash(path)
        base == Base(path)
        ext == ToLower(Ext(base))
    IN  IF isGenerated(custom, normalized, base)
        THEN [category |-> Generated, language |-> detectLanguage(ext)]
        ELSE IF isDocs(custom, normalized, ext)
        THEN [category |-> Docs, language |-> detectLanguage(ext)]
        ELSE IF isTests(custom, normalized, base)
        THEN [category |-> Tests, language |-> detectLanguage(ext)]
        ELSE IF isSource(custom, ext)
        THEN [category |-> Source, language |-> detectLanguage(ext)]
        ELSE [category |-> Other, language |-> detectLanguage(ext)]

----------------------------------------------------------------------------
(* Inputs of the classifier *)

NoOverrides == [c \in {} |-> [Patterns |-> <<>>, Extensions |-> <<>>]]

\* The category overrides a configuration may carry (config.Config.Categories).
OverrideSets ==
    { NoOverrides,
      Generated :> [Patterns |-> <<".generated.", "gen/">>, Extensions |-> <<>>],
      Docs :> [Patterns |-> <<"*_test.go">>, Extensions |-> <<"PNG">>],
      Tests :> [Patterns |-> <<"*.go", "docs/">>, Extensions |-> <<>>],
      Source :> [Patterns |-> <<"Makefile">>, Extensions |-> <<".md", "png">>],
      (Generated :> [Patterns |-> <<>>, Extensions |-> <<".go">>])
         @@ (Docs :> [Patterns |-> <<"vendor/">>, Extensions |-> <<>>]) }

\* The paths Classify is called with.
ClassifyPaths ==
    { "", "Makefile", "main.go", "MAIN.GO", "go.sum", "README.md", "image.png",
      "vendor/README.md", "vendor/errors.go", "myvendor/a.go",
      "tests/README.md", "docs/example.go", "docs/a_test.go",
      "pkg/handler_test.go", "test_x.py", "api.generated.go", "gen/a.md",
      "pkg/gen/a.go", "mygen/a.go" }

----------------------------------------------------------------------------
(* SpecClassify: calls of Classify on one Classifier *)

\* The variables of Parse and run(), at rest.
ParseIdle ==
    /\ emptyMode = "exclude"
    /\ input = <<>>
    /\ stats = <<>>
    /\ current = <<>>
    /\ inBinary = FALSE
    /\ parsePc = "idle"
    /\ parseRet = [stats |-> <<>>, err |-> FALSE]
    /\ readFailed = FALSE

NoSummary ==
    [Totals |-> [Added |-> 0, Deleted |-> 0, Churn |-> 0, FileCount |-> 0],
     CategoryTotals |-> NoOverrides,
     FileStats |-> <<>>]

NothingRendered == [format |-> "none", body |-> <<>>]

\* The flags of the command as newRootCmd declares them, none given.
DefaultOpts ==
    [base |-> "", head |-> "", empty |-> "exclude", format |-> "text",
     include |-> <<>>, exclude |-> <<>>, category |-> <<>>, sort |-> "churn"]

\* A command line without flags and arguments: <<>> is a flag not given,
\* <<v>> a flag given with the value v.
NoFlags ==
    [base |-> <<>>, head |-> <<>>, empty |-> <<>>, format |-> <<>>,
     sort |-> <<>>, include |-> <<>>, exclude |-> <<>>, args |-> <<>>]

\* config.Config{}
ZeroConfig ==
    [Include |-> <<>>, Exclude |-> <<>>, Categories |-> NoOverrides,
     Empty |-> "", Sort |-> ""]

\* A config file that does not exist.
MissingFile == [state |-> "missing", cfg |-> ZeroConfig]
NoFiles == [global |-> MissingFile, repo |-> MissingFile]

NoMeta == [Base |-> "", Head |-> "", Empty |-> ""]

\* The variables of run()'s first half once a range is resolved without a
\* git command.
SetupDone ==
    /\ cmdline = NoFlags
    /\ files = NoFiles
    /\ gitLog = <<>>
    /\ resolveRet = [refRange |-> "main...HEAD", err |-> ""]
    /\ refRange = "main...HEAD"
    /\ worktreeMode = FALSE
    /\ diffExit = ""
    /\ errOut = <<>>

RunIdle ==
    /\ pc = "idle"
    /\ opts = DefaultOpts
    /\ cfg = [Empty |-> "exclude", Include |-> <<>>, Exclude |-> <<>>,
              Categories |-> NoOverrides, Sort |-> "churn"]
    /\ SetupDone
    /\ meta = NoMeta
    /\ diff = <<>>
    /\ parsed = <<>>
    /\ filtered = <<>>
    /\ summary = NoSummary
    /\ rendered = NothingRendered
    /\ exitCode = -1

\* classify.New(cfg): the classifier keeps cfg.Categories.
InitClassify ==
    /\ customCategories \in OverrideSets
    /\ calls = <<>>
    /\ ParseIdle
    /\ RunIdle

\* One call c.Classify(path); the call reads c and writes nothing.
ClassifyCall ==
    /\ Len(calls) < MaxCalls
    /\ \E path \in ClassifyPaths :
          LET r == Classify(customCategories, path)
          IN  calls' = Append(calls, [path |-> path, category |-> r.category,
                                      language |-> r.language])
    /\ UNCHANGED <<customCategories, parseVars, runVars>>

NextClassify == ClassifyCall

SpecClassify == InitClassify /\ [][NextClassify]_vars

----------------------------------------------------------------------------
(* internal/parser *)

\* parser.FileStat{Path: path}
NewFileStat(path) == [Path |-> path, Added |-> 0, Deleted |-> 0, Churn |-> 0]

\* parseDiffHeader falling back to all that follows the "diff --git " prefix.
parseDiffHeaderWholeRemainder(line) ==
    LET parts == SplitN2(line, " b/")
    IN  IF Len(parts) = 2 THEN parts[2] ELSE TrimPrefix(line, "diff --git ")

\* parseDiffHeader: the b-side path of a "diff --git a/... b/..." line.
parseDiffHeader(line) ==
    LET parts == SplitN2(line, " b/")
        trimmed == TrimPrefix(line, "diff --git ")
        halves == SplitN2(trimmed, " ")
    IN  IF Len(parts) = 2 THEN parts[2]
        ELSE IF Len(halves) = 2 THEN TrimPrefix(halves[2], "b/")
        ELSE trimmed

\* flush keeping only the records that counted a line.
flushDropsUnchanged(st) ==
    IF st.current # <<>> /\ st.current[1].Added + st.current[1].Deleted > 0
    THEN [st EXCEPT
            !.stats = Append(st.stats,
                             [st.current[1] EXCEPT
                                !.Churn = st.current[1].Added + st.current[1].Deleted]),
            !.current = <<>>]
    ELSE [st EXCEPT !.current = <<>>]

\* flush appending the record without computing its Churn.
flushWithoutChurn(st) ==
    IF st.current # <<>>
    THEN [st EXCEPT !.stats = Append(st.stats, st.current[1]), !.current = <<>>]
    ELSE st

\* The closure flush of Parse, on the locals st = [stats, current, inBinary].
flush(st) ==
    IF st.current # <<>>
    THEN [st EXCEPT
            !.stats = Append(st.stats,
                             [st.current[1] EXCEPT
                                !.Churn = st.current[1].Added + st.current[1].Deleted]),
            !.current = <<>>]
    ELSE st

\* The rename line left unapplied.
applyRenameDropped(st, line) == st

\* current.Path = strings.TrimPrefix(line, "rename to ")
applyRename(st, line) ==
    [st EXCEPT !.current[1].Path = TrimPrefix(line, "rename to ")]

\* Only the empty content left uncounted, whitespace-only content counted.
skipEmptyUntrimmed(mode, content) == mode # "include" /\ content = ""

\* Whether a changed line with the given content is left uncounted.
skipEmpty(mode, content) == mode # "include" /\ TrimSpace(content) = ""

\* The body of Parse's scan loop for one line.
ParseLine(st, line, mode) ==
    IF HasPrefix(line, "diff --git ")
    THEN [flush(st) EXCEPT !.inBinary = FALSE,
                           !.current = <<NewFileStat(parseDiffHeader(line))>>]
    ELSE IF st.current = <<>> THEN st
    ELSE IF HasPrefix(line, "rename to ")
    THEN applyRename(st, line)
    ELSE IF HasPrefix(line, "Binary files ")
    THEN [st EXCEPT !.inBinary = TRUE]
    ELSE IF st.inBinary THEN st
    ELSE IF HasPrefix(line, "+++") \/ HasPrefix(line, "---") THEN st
    ELSE IF HasPrefix(line, "+")
    THEN IF skipEmpty(mode, SubSeq(line, 2, Len(line))) THEN st
         ELSE [st EXCEPT !.current[1].Added = @ + 1]
    ELSE IF HasPrefix(line, "-")
    THEN IF skipEmpty(mode, SubSeq(line, 2, Len(line))) THEN st
         ELSE [st EXCEPT !.current[1].Deleted = @ + 1]
    ELSE st

ParseStart == [stats |-> <<>>, current |-> <<>>, inBinary |-> FALSE]

RECURSIVE ParseLines(_, _, _)
\* The scan loop over all of lines, from the locals st.
ParseLines(st, lines, mode) ==
    IF lines = <<>> THEN st
    ELSE ParseLines(ParseLine(st, Head(lines), mode), Tail(lines), mode)

\* bufio.MaxScanTokenSize, the buffer limit of the scanner bufio.NewScanner
\* returns.
MaxScanTokenSize == 64 * 1024

\* Whether the scanner cannot deliver the line: its buffer fills up before
\* the line's end is found, and Scan stops with bufio.ErrTooLong.
TooLong(line) == Len(line) >= MaxScanTokenSize

\* The position of the first line of lines the scanner cannot deliver, or 0.
FirstTooLong(lines) ==
    LET S == {i \in 1..Len(lines) : TooLong(lines[i])}
    IN  IF S = {} THEN 0 ELSE CHOOSE i \in S : \A j \in S : i <= j

\* Parse(r, emptyMode) when r holds lines and then ends, with a read error or
\* without: the records returned and whether err is non-nil.
Parse(lines, mode, readErr) ==
    LET k == FirstTooLong(lines)
        scanned == IF k = 0 THEN lines ELSE SubSeq(lines, 1, k - 1)
        st == flush(ParseLines(ParseStart, scanned, mode))
    IN  IF readErr \/ k # 0 THEN [stats |-> <<>>, err |-> TRUE]
        ELSE [stats |-> st.stats, err |-> FALSE]

----------------------------------------------------------------------------
(* SpecParse: one call of Parse, the scanner delivering one line per step *)

Header1 == "diff --git a/main.go b/main.go"
Header2 == "diff --git a/old.go b/new.go"
Header3 == "diff --git a/image.png b/image.png"
RenameTo == "rename to new.go"
BinaryMarker == "Binary files a/image.png and b/image.png differ"

\* The lines the scanner may deliver.
DiffLines ==
    { Header1, Header2, Header3, RenameTo, BinaryMarker,
      "+++ b/main.go", "@@ -1 +1,2 @@",
      "+func F() {}", "+", "-func Old() {}" }

RECURSIVE Doubled(_, _)
\* s doubled n times: 2^n copies of s.
Doubled(s, n) == IF n = 0 THEN s ELSE Doubled(s \o s, n - 1)

\* An added line of 64 KiB of content, as a minified bundle has them.
LongLine == "+" \o Doubled("x", 16)

\* The lines of the input that exceed the scanner's buffer.
LongLines == { LongLine }

Locals == [stats |-> stats, current |-> current, inBinary |-> inBinary]

InitParse ==
    /\ customCategories = NoOverrides
    /\ calls = <<>>
    /\ emptyMode \in {"include", "exclude"}
    /\ input = <<>>
    /\ stats = <<>>
    /\ current = <<>>
    /\ inBinary = FALSE
    /\ parsePc = "scan"
    /\ parseRet = [stats |-> <<>>, err |-> FALSE]
    /\ readFailed = FALSE
    /\ RunIdle

\* scanner.Scan() delivers a line, one of lines, and the loop body runs on it.
ScanFrom(lines) ==
    /\ parsePc = "scan"
    /\ Len(input) < MaxLines
    /\ \E line \in lines :
          LET st == ParseLine(Locals, line, emptyMode)
          IN  /\ ~TooLong(line)
              /\ input' = Append(input, line)
              /\ stats' = st.stats
              /\ current' = st.current
              /\ inBinary' = st.inBinary
    /\ UNCHANGED <<customCategories, calls, emptyMode, parsePc, parseRet,
                   readFailed, runVars>>

ScanLine == ScanFrom(DiffLines)

\* scanner.Scan() meets a line that does not fit its buffer: it stops with
\* bufio.ErrTooLong, the loop ends, flush runs, and scanner.Err() is returned.
ScanTooLong ==
    /\ parsePc = "scan"
    /\ Len(input) < MaxLines
    /\ \E line \in LongLines :
          /\ TooLong(line)
          /\ input' = Append(input, line)
    /\ LET st == flush(Locals)
       IN  /\ stats' = st.stats
           /\ current' = st.current
    /\ parseRet' = [stats |-> <<>>, err |-> TRUE]
    /\ parsePc' = "returned"
    /\ UNCHANGED <<customCategories, calls, emptyMode, inBinary, readFailed,
                   runVars>>

\* scanner.Scan() reports the end of the input: flush, no error, return stats.
ScanEOF ==
    /\ parsePc = "scan"
    /\ LET st == flush(Locals)
       IN  /\ stats' = st.stats
           /\ current' = st.current
           /\ parseRet' = [stats |-> st.stats, err |-> FALSE]
    /\ parsePc' = "returned"
    /\ UNCHANGED <<customCategories, calls, emptyMode, input, inBinary,
                   readFailed, runVars>>

\* scanner.Scan() stops on a read error: flush, then return nil and the error.
ScanFail ==
    /\ parsePc = "scan"
    /\ LET st == flush(Locals)
       IN  /\ stats' = st.stats
           /\ current' = st.current
    /\ parseRet' = [stats |-> <<>>, err |-> TRUE]
    /\ parsePc' = "returned"
    /\ readFailed' = TRUE
    /\ UNCHANGED <<customCategories, calls, emptyMode, input, inBinary, runVars>>

NextParse == ScanLine \/ ScanTooLong \/ ScanEOF \/ ScanFail

SpecParse == InitParse /\ [][NextParse]_vars

----------------------------------------------------------------------------
(* SpecHunks: one call of Parse on the lines of files' hunks *)

\* The lines of a file's section: its header, the '+++' path annotation, a
\* hunk header, changed lines with content, blank or whitespace-only changed
\* lines, the added line whose content is "++i;", and the binary marker.
HunkLines ==
    { Header1, BinaryMarker, "+++ b/main.go", "@@ -1 +1,2 @@",
      "+func F() {}", "+", "-func Old() {}", "- \t", "+++i;" }

ScanHunkLine == ScanFrom(HunkLines)

NextHunks == ScanHunkLine \/ ScanTooLong \/ ScanEOF \/ ScanFail

SpecHunks == InitParse /\ [][NextHunks]_vars

----------------------------------------------------------------------------
(* SpecHeaders: one call of Parse on header lines of several forms *)

HeaderSpaces == "diff --git a/my file.go b/my file.go"
HeaderNested == "diff --git a/x b/y b/x b/y"
HeaderOneToken == "diff --git nonsense"
HeaderNoPrefix == "diff --git i/main.go w/main.go"
HeaderBare == "diff --git "

\* Header lines as git writes them (plain, renaming, with spaces in the path,
\* with " b/" inside the path), header lines without the " b/" separator
\* (one token, two tokens with other prefixes, nothing after the prefix),
\* and a changed line.
HeaderLines ==
    { Header1, Header2, HeaderSpaces, HeaderNested, HeaderOneToken,
      HeaderNoPrefix, HeaderBare, "+func F() {}" }

ScanHeaderLine == ScanFrom(HeaderLines)

NextHeaders == ScanHeaderLine \/ ScanTooLong \/ ScanEOF \/ ScanFail

SpecHeaders == InitParse /\ [][NextHeaders]_vars

----------------------------------------------------------------------------
(* internal/filter *)

\* doublestar's test for a pattern remainder that matches the empty name.
isZeroLengthPattern(pattern) == pattern \in {"", "*", "**", "/**"}

RECURSIVE doMatch(_, _, _)
\* doublestar.Match (a dependency, v4) for patterns made of literals, '?', '*'
\* and '**' (the globs drawn below contain no character class, alternative or
\* escape).  A
\* '**' that fills a whole path segment matches any number of directories; a
\* '*' elsewhere stays within one segment.
doMatch(pattern, name, startOfSegment) ==
    IF name = "" THEN isZeroLengthPattern(pattern)
    ELSE IF pattern = "" THEN FALSE
    ELSE IF HasPrefix(pattern, "**") /\ startOfSegment /\ Len(pattern) = 2 THEN TRUE
    ELSE IF HasPrefix(pattern, "**/") /\ startOfSegment
    THEN LET rest == SubSeq(pattern, 4, Len(pattern))
         IN  \/ doMatch(rest, name, TRUE)
             \/ \E k \in 1..Len(name) :
                   /\ SubSeq(name, k, k) = "/"
                   /\ doMatch(rest, SubSeq(name, k + 1, Len(name)), TRUE)
    ELSE IF Head(pattern) = "*"
    THEN LET rest == IF HasPrefix(pattern, "**") THEN SubSeq(pattern, 3, Len(pattern))
                     ELSE Tail(pattern)
         IN  \/ doMatch(rest, name, FALSE)
             \/ Head(name) # "/" /\ doMatch("*" \o rest, Tail(name), FALSE)
    ELSE IF Head(pattern) = "?"
    THEN Head(name) # "/" /\ doMatch(Tail(pattern), Tail(name), FALSE)
    ELSE /\ Head(pattern) = Head(name)
         /\ doMatch(Tail(pattern), Tail(name), Head(pattern) = "/")

DoublestarMatch(pattern, name) == doMatch(pattern, name, TRUE)

\* matchInclude looking at the first pattern only.
matchIncludeFirstOnly(path, patterns) ==
    \/ Len(patterns) = 0
    \/ DoublestarMatch(patterns[1], path)

matchInclude(path, patterns) ==
    \/ Len(patterns) = 0
    \/ \E i \in 1..Len(patterns) : DoublestarMatch(patterns[i], path)

matchExclude(path, patterns) ==
    \E i \in 1..Len(patterns) : DoublestarMatch(patterns[i], path)

\* matchCategory with a categoryFn that knows the built-in rules only.
matchCategoryBuiltIn(path, categories, custom) ==
    \/ Len(categories) = 0
    \/ \E i \in 1..Len(categories) :
          categories[i] = Classify(NoOverrides, path).category

\* matchCategory, with run()'s categoryFn: the classifier's category of path.
matchCategory(path, categories, custom) ==
    \/ Len(categories) = 0
    \/ \E i \in 1..Len(categories) : categories[i] = Classify(custom, path).category

RECURSIVE Filter(_, _, _)
\* filter.Filter(stats, cfg, categoryFn): the records kept, in input order.
Filter(records, filterCfg, custom) ==
    IF records = <<>> THEN <<>>
    ELSE LET fs == Head(records)
             keep == /\ matchInclude(fs.Path, filterCfg.Include)
                     /\ ~matchExclude(fs.Path, filterCfg.Exclude)
                     /\ matchCategory(fs.Path, filterCfg.Categories, custom)
         IN  (IF keep THEN <<fs>> ELSE <<>>)
             \o Filter(Tail(records), filterCfg, custom)

----------------------------------------------------------------------------
(* cmd/differ: the aggregation of run() *)

ZeroTotal == [Added |-> 0, Deleted |-> 0, Churn |-> 0, FileCount |-> 0]

\* The accumulator starting with a zero total for each of the five categories.
AggregateStartAllCategories ==
    [fileStats |-> <<>>, catTotals |-> [c \in Categories |-> ZeroTotal],
     totalAdded |-> 0, totalDeleted |-> 0, totalFiles |-> 0]

AggregateStart ==
    [fileStats |-> <<>>, catTotals |-> NoOverrides,
     totalAdded |-> 0, totalDeleted |-> 0, totalFiles |-> 0]

\* The category total replaced by the record's counts instead of increased.
AddToCategoryOverwriting(catTotals, cat, fs) ==
    LET nt == [Added |-> fs.Added, Deleted |-> fs.Deleted, Churn |-> fs.Churn,
               FileCount |-> 1]
    IN  [c \in DOMAIN catTotals \cup {cat} |-> IF c = cat THEN nt ELSE catTotals[c]]

\* The catTotals map after one record fs of category cat is added to it; a
\* key that is absent reads as the zero CategoryTotal.
AddToCategory(catTotals, cat, fs) ==
    LET ct == IF cat \in DOMAIN catTotals THEN catTotals[cat] ELSE ZeroTotal
        nt == [Added |-> ct.Added + fs.Added,
               Deleted |-> ct.Deleted + fs.Deleted,
               Churn |-> ct.Churn + fs.Churn,
               FileCount |-> ct.FileCount + 1]
    IN  [c \in DOMAIN catTotals \cup {cat} |-> IF c = cat THEN nt ELSE catTotals[c]]

\* The body of run()'s loop over filtered, for the record fs.
AggregateStep(acc, fs, custom) ==
    LET r == Classify(custom, fs.Path)
    IN  [fileStats |-> Append(acc.fileStats,
                              [Path |-> fs.Path, Added |-> fs.Added,
                               Deleted |-> fs.Deleted, Churn |-> fs.Churn,
                               Category |-> r.category, Language |-> r.language]),
         catTotals |-> AddToCategory(acc.catTotals, r.category, fs),
         totalAdded |-> acc.totalAdded + fs.Added,
         totalDeleted |-> acc.totalDeleted + fs.Deleted,
         totalFiles |-> acc.totalFiles + 1]

RECURSIVE AggregateLoop(_, _, _)
AggregateLoop(acc, records, custom) ==
    IF records = <<>> THEN acc
    ELSE AggregateLoop(AggregateStep(acc, Head(records), custom), Tail(records), custom)

\* The output.Summary run() builds from filtered (Meta left out).
BuildSummary(records, custom) ==
    LET acc == AggregateLoop(AggregateStart, records, custom)
    IN  [Totals |-> [Added |-> acc.totalAdded,
                     Deleted |-> acc.totalDeleted,
                     Churn |-> acc.totalAdded + acc.totalDeleted,
                     FileCount |-> acc.totalFiles],
         CategoryTotals |-> acc.catTotals,
         FileStats |-> acc.fileStats]

----------------------------------------------------------------------------
(* internal/output *)

\* categoryOrder in the classifier's priority order.
categoryOrderByPriority ==
    << [key |-> "generated", display |-> "Generated"],
       [key |-> "docs", display |-> "Documentation"],
       [key |-> "tests", display |-> "Tests"],
       [key |-> "source", display |-> "Source"],
       [key |-> "other", display |-> "Uncategorized"] >>

\* The display order of the categories in the text summary.
categoryOrder ==
    << [key |-> "docs", display |-> "Documentation"],
       [key |-> "tests", display |-> "Tests"],
       [key |-> "source", display |-> "Source"],
       [key |-> "generated", display |-> "Generated"],
       [key |-> "other", display |-> "Uncategorized"] >>

RECURSIVE SummaryLines(_, _)
\* The category lines renderSummary prints, for categoryOrder from index i on.
SummaryLines(s, i) ==
    IF i > Len(categoryOrder) THEN <<>>
    ELSE LET cat == categoryOrder[i]
             skip == \/ cat.key \notin DOMAIN s.CategoryTotals
                     \/ s.CategoryTotals[cat.key].Churn = 0
         IN  (IF skip THEN <<>>
              ELSE <<[label |-> cat.display, total |-> s.CategoryTotals[cat.key]]>>)
             \o SummaryLines(s, i + 1)

\* renderSummary: the category lines, then the Total line.
renderSummary(s) ==
    SummaryLines(s, 1) \o <<[label |-> "Total", total |-> s.Totals]>>

\* The paths of the files of category cat, in FileStats order (catFiles[cat]).
CatFiles(fileStats, cat) ==
    LET F[i \in 0..Len(fileStats)] ==
            IF i = 0 THEN <<>>
            ELSE IF fileStats[i].Category = cat
                 THEN Append(F[i - 1], fileStats[i].Path)
                 ELSE F[i - 1]
    IN  F[Len(fileStats)]

\* RenderJSON: the object encoded (meta left out).
RenderJSON(s) ==
    [total |-> [added |-> s.Totals.Added, deleted |-> s.Totals.Deleted,
                churn |-> s.Totals.Churn, files |-> s.Totals.FileCount],
     by_category |->
        [cat \in DOMAIN s.CategoryTotals |->
            [added |-> s.CategoryTotals[cat].Added,
             deleted |-> s.CategoryTotals[cat].Deleted,
             churn |-> s.CategoryTotals[cat].Churn,
             files |-> CatFiles(s.FileStats, cat),
             file_count |-> s.CategoryTotals[cat].FileCount]],
     by_file |->
        [i \in 1..Len(s.FileStats) |->
            [path |-> s.FileStats[i].Path, added |-> s.FileStats[i].Added,
             deleted |-> s.FileStats[i].Deleted, churn |-> s.FileStats[i].Churn,
             category |-> s.FileStats[i].Category,
             language |-> s.FileStats[i].Language]]]

----------------------------------------------------------------------------
(* Spec: one invocation of run(), from the parsing of git's output on *)

HeaderGo == "diff --git a/main.go b/main.go"
HeaderMd == "diff --git a/README.md b/README.md"
HeaderPng == "diff --git a/image.png b/image.png"

\* The lines git diff may write.
RunLines ==
    { HeaderGo, HeaderMd, HeaderPng, BinaryMarker,
      "+func F() {}", "-func Old() {}", "+" }

HeaderSum == "diff --git a/go.sum b/go.sum"
HeaderTest == "diff --git a/main_test.go b/main_test.go"
HeaderMake == "diff --git a/Makefile b/Makefile"

\* Two diffs touching a file of every category, listed against the display
\* order; the file of category other is binary in the first one.
WideDiffs ==
    LET front == <<HeaderSum, "+func F() {}", HeaderGo, "+func F() {}",
                   "-func Old() {}", HeaderTest, "-func Old() {}",
                   HeaderMd, "+func F() {}">>
    IN  { front \o <<HeaderPng, BinaryMarker>>,
          <<HeaderMake, "+func F() {}">> \o front }

\* The diffs git may write: every sequence of at most MaxDiffLines lines, and
\* the wide ones.
Diffs == UNION {[1..n -> RunLines] : n \in 0..MaxDiffLines} \cup WideDiffs

\* The flags and the resolved configuration of an invocation.
RunConfigs ==
    LET C(format, empty, category, include, exclude, categories) ==
            [opts |-> [DefaultOpts EXCEPT !.format = format,
                                          !.category = category,
                                          !.empty = empty,
                                          !.include = include,
                                          !.exclude = exclude],
             cfg |-> [Empty |-> empty, Include |-> include, Exclude |-> exclude,
                      Categories |-> categories, Sort |-> "churn"]]
    IN  { C("text", "exclude", <<>>, <<>>, <<>>, NoOverrides),
          C("json", "include", <<>>, <<>>, <<>>, NoOverrides),
          C("json", "exclude", <<>>, <<"**/*.go", "*.md">>, <<>>, NoOverrides),
          C("text", "include", <<>>, <<>>, <<"**/*.png", "README.*">>, NoOverrides),
          C("json", "exclude", <<>>, <<"**/*.go", "*.md">>, <<"README.*">>,
            NoOverrides),
          C("json", "exclude", <<"source">>, <<>>, <<>>, NoOverrides),
          C("json", "exclude", <<"other">>, <<>>, <<>>,
            Docs :> [Patterns |-> <<>>, Extensions |-> <<"png">>]),
          C("json", "include", <<"docs", "other">>, <<>>, <<"main.go">>,
            Docs :> [Patterns |-> <<>>, Extensions |-> <<"png">>]),
          C("text", "exclude", <<"generated">>, <<"*.go">>, <<>>,
            Generated :> [Patterns |-> <<"main.*">>, Extensions |-> <<>>]) }

Init ==
    /\ customCategories = NoOverrides
    /\ calls = <<>>
    /\ ParseIdle
    /\ pc = "parse"
    /\ \E c \in RunConfigs : opts = c.opts /\ cfg = c.cfg
    /\ SetupDone
    /\ diff = <<>>
    /\ parsed = <<>>
    /\ filtered = <<>>
    /\ summary = NoSummary
    /\ meta = NoMeta
    /\ rendered = NothingRendered
    /\ exitCode = -1

\* os.Exit(code)
Exit(code) == pc' = "exit" /\ exitCode' = code

\* fmt.Fprintf(os.Stderr, ...) of a message, then os.Exit(code).  A message
\* that goes on with the text of an error of the system is cut before it.
Fail(code, msg) == Exit(code) /\ errOut' = Append(errOut, msg)

\* run() goes on to its next step.
Goto(next) == pc' = next /\ exitCode' = exitCode /\ errOut' = errOut

\* The %q form of a flag's value.
Quote(v) == "\"" \o v \o "\""

\* parser.Parse(diffResult.Stdout, cfg.Empty) when git writes one of diffs;
\* an error ends the process.
RunParseFrom(diffs) ==
    /\ pc = "parse"
    /\ \E d \in diffs, readErr \in BOOLEAN :
          LET r == Parse(d, cfg.Empty, readErr)
          IN  /\ diff' = d
              /\ parseRet' = r
              /\ readFailed' = readErr
              /\ parsed' = r.stats
              /\ IF r.err THEN Fail(1, "Error: parsing diff") ELSE Goto("wait")
    /\ UNCHANGED <<customCategories, calls, emptyMode, input, stats, current,
                   inBinary, parsePc, opts, cfg, filtered, summary, rendered,
                   meta, gitVars, diffExit>>

RunParse == RunParseFrom(Diffs)

\* diffResult.Wait() with its error dropped.
RunWaitErrorIgnored ==
    /\ pc = "wait"
    /\ \E waitErr \in BOOLEAN :
          /\ diffExit' = IF waitErr THEN "failed" ELSE "ok"
          /\ Goto("filter")
    /\ UNCHANGED <<customCategories, calls, parseVars, opts, cfg, diff, parsed,
                   filtered, summary, rendered, meta, gitVars>>

\* diffResult.Wait(); an error of the git process ends this one.
RunWait ==
    /\ pc = "wait"
    /\ \E waitErr \in BOOLEAN :
          /\ diffExit' = IF waitErr THEN "failed" ELSE "ok"
          /\ IF waitErr THEN Fail(1, "Error: git diff failed")
             ELSE Goto("filter")
    /\ UNCHANGED <<customCategories, calls, parseVars, opts, cfg, diff, parsed,
                   filtered, summary, rendered, meta, gitVars>>

\* classify.New(cfg), then filter.Filter(parsed, filterCfg, categoryFn).
RunFilter ==
    /\ pc = "filter"
    /\ customCategories' = cfg.Categories
    /\ filtered' = Filter(parsed,
                          [Include |-> cfg.Include, Exclude |-> cfg.Exclude,
                           Categories |-> opts.category],
                          cfg.Categories)
    /\ pc' = "summary"
    /\ UNCHANGED <<calls, parseVars, opts, cfg, diff, parsed, summary, rendered,
                   exitCode, meta, setupVars>>

\* parseRefRange looking for the two-dot separator first.
parseRefRangeTwoDotsFirst(r) ==
    LET three == SplitN2(r, "...")
        two == SplitN2(r, "..")
    IN  IF Len(two) = 2 THEN two
        ELSE IF Len(three) = 2 THEN three
        ELSE <<r, "">>

\* parseRefRange: "base...head" or "base..head" split at the first separator.
parseRefRange(r) ==
    LET three == SplitN2(r, "...")
        two == SplitN2(r, "..")
    IN  IF Len(three) = 2 THEN three
        ELSE IF Len(two) = 2 THEN two
        ELSE <<r, "">>

\* The head label of a comparison against the working tree.
Worktree == "WORKTREE"

\* metaBase and metaHead, and the Meta built from them.
BuildMeta(range, worktree, empty) ==
    LET p == parseRefRange(range)
    IN  [Base |-> p[1],
         Head |-> IF worktree THEN Worktree ELSE p[2],
         Empty |-> empty]

\* The loop over filtered and the construction of summary.
RunSummary ==
    /\ pc = "summary"
    /\ summary' = BuildSummary(filtered, customCategories)
    /\ meta' = BuildMeta(refRange, worktreeMode, cfg.Empty)
    /\ pc' = "render"
    /\ UNCHANGED <<customCategories, calls, parseVars, opts, cfg, diff, parsed,
                   filtered, rendered, exitCode, setupVars>>

\* output.RenderJSON or output.RenderText (with -l and -L not given) on standard
\* output, then return nil.
RunRender ==
    /\ pc = "render"
    /\ rendered' = IF opts.format = "json"
                   THEN [format |-> "json", body |-> RenderJSON(summary)]
                   ELSE [format |-> "text", body |-> renderSummary(summary)]
    /\ pc' = "done"
    /\ exitCode' = 0
    /\ UNCHANGED <<customCategories, calls, parseVars, opts, cfg, diff, parsed,
                   filtered, summary, meta, setupVars>>

Next == RunParse \/ RunWait \/ RunFilter \/ RunSummary \/ RunRender

Spec == Init /\ [][Next]_vars

----------------------------------------------------------------------------
(* internal/config *)

\* defaults()
defaults == [ZeroConfig EXCEPT !.Empty = "exclude", !.Sort = "churn"]

\* merge(base, override): the non-zero fields of override replace base's.
merge(base, override) ==
    [Include |-> IF Len(override.Include) > 0 THEN override.Include
                 ELSE base.Include,
     Exclude |-> IF Len(override.Exclude) > 0 THEN override.Exclude
                 ELSE base.Exclude,
     Empty |-> IF override.Empty # "" THEN override.Empty ELSE base.Empty,
     Sort |-> IF override.Sort # "" THEN override.Sort ELSE base.Sort,
     Categories |-> IF DOMAIN override.Categories # {}
                    THEN override.Categories @@ base.Categories
                    ELSE base.Categories]

\* loadFile(path) on a file in the given state: the Config read, nil for a
\* missing file (ok is FALSE), or an error.
loadFile(file) ==
    [err |-> file.state = "malformed",
     ok |-> file.state = "present",
     cfg |-> file.cfg]

\* load(globalPath, repoRoot, cliOverrides)
load(global, repo, cliOverrides) ==
    LET g == loadFile(global)
        r == loadFile(repo)
        c1 == IF g.ok THEN merge(defaults, g.cfg) ELSE defaults
        c2 == IF r.ok THEN merge(c1, r.cfg) ELSE c1
    IN  IF g.err \/ r.err THEN [cfg |-> ZeroConfig, err |-> TRUE]
        ELSE [cfg |-> merge(c2, cliOverrides), err |-> FALSE]

----------------------------------------------------------------------------
(* internal/gitdiff *)

\* The fallback chain with main tried before origin/HEAD.
fallbacksMainFirst ==
    << [ref |-> "main", refRange |-> "main...HEAD"],
       [ref |-> "origin/HEAD", refRange |-> "origin/HEAD...HEAD"],
       [ref |-> "master", refRange |-> "master...HEAD"] >>

\* The fallback chain of ResolveRefs.
fallbacks ==
    << [ref |-> "origin/HEAD", refRange |-> "origin/HEAD...HEAD"],
       [ref |-> "main", refRange |-> "main...HEAD"],
       [ref |-> "master", refRange |-> "master...HEAD"] >>

\* The error of ResolveRefs when no fallback exists (the source has a dash
\* where this text has a hyphen).
ErrNoBase ==
    "cannot resolve base ref: tried origin/HEAD, main, master - are you in a git repository?"

\* One command handed to the CommandRunner, with what it returned.
Command(args, out, err) == [name |-> "git", args |-> args, out |-> out, err |-> err]

\* WorktreeDirty taking a failed git status for a changed tree.
WorktreeDirtyOnError(c) ==
    IF c.err THEN [dirty |-> TRUE, err |-> FALSE]
    ELSE [dirty |-> TrimSpace(c.out) # "", err |-> FALSE]

\* WorktreeDirty on the outcome of git status --porcelain.
WorktreeDirty(c) ==
    IF c.err THEN [dirty |-> FALSE, err |-> TRUE]
    ELSE [dirty |-> TrimSpace(c.out) # "", err |-> FALSE]

\* MergeBase taking whatever a successful git merge-base wrote.
MergeBaseAcceptsEmpty(c) ==
    IF c.err THEN [mergeBase |-> "", err |-> TRUE]
    ELSE [mergeBase |-> TrimSpace(c.out), err |-> FALSE]

\* MergeBase on the outcome of git merge-base.
MergeBase(c) ==
    IF c.err THEN [mergeBase |-> "", err |-> TRUE]
    ELSE IF TrimSpace(c.out) = "" THEN [mergeBase |-> "", err |-> TRUE]
    ELSE [mergeBase |-> TrimSpace(c.out), err |-> FALSE]

----------------------------------------------------------------------------
(* SpecRun: one invocation of run(), from its entry on *)

\* The value of a string flag: the one given, or the flag's default.
FlagValue(given, default) == IF given = <<>> THEN default ELSE given[1]

\* The runOpts cobra builds from a command line.
ParseFlags(cl) ==
    [base |-> FlagValue(cl.base, DefaultOpts.base),
     head |-> FlagValue(cl.head, DefaultOpts.head),
     empty |-> FlagValue(cl.empty, DefaultOpts.empty),
     format |-> FlagValue(cl.format, DefaultOpts.format),
     sort |-> FlagValue(cl.sort, DefaultOpts.sort),
     include |-> cl.include,
     exclude |-> cl.exclude,
     category |-> DefaultOpts.category]

\* The command lines: each flag not given, given a valid value or (the
\* validated ones) given an invalid value; no argument, one argument (a
\* two-dot range, a single revision, a range with both separators), or two.
Cmdlines ==
    [base : {<<>>, <<"v1">>},
     head : {<<>>, <<"v2">>},
     empty : {<<>>, <<"include">>, <<"exclude">>, <<"all">>},
     format : {<<>>, <<"json">>, <<"xml">>},
     sort : {<<>>, <<"path">>, <<"size">>},
     include : {<<>>, <<"**/*.go">>},
     exclude : {<<>>, <<"README.*">>},
     args : {<<>>, <<"v1..v2">>, <<"HEAD">>, <<"a..b...c">>, <<"v1", "v2">>}]

GlobalConfig ==
    [state |-> "present",
     cfg |-> [ZeroConfig EXCEPT !.Empty = "include", !.Sort = "path",
                                !.Include = <<"**/*.go">>]]
RepoConfig ==
    [state |-> "present",
     cfg |-> [ZeroConfig EXCEPT !.Include = <<"*.md">>,
                                !.Exclude = <<"README.*">>]]
RepoConfigAll ==
    [state |-> "present",
     cfg |-> [ZeroConfig EXCEPT !.Empty = "all", !.Sort = "path"]]
MalformedFile == [state |-> "malformed", cfg |-> ZeroConfig]

\* The config files an invocation may find.
ConfigFiles ==
    [global : {MissingFile, MalformedFile, GlobalConfig},
     repo : {MissingFile, MalformedFile, RepoConfig, RepoConfigAll}]

\* What git status --porcelain may return: an error, nothing, a changed file.
StatusOutcomes ==
    { Command(<<"status", "--porcelain">>, "", TRUE),
      Command(<<"status", "--porcelain">>, "", FALSE),
      Command(<<"status", "--porcelain">>, " M main.go\n", FALSE) }

\* What git merge-base may return: an error, nothing, a commit.
MergeBaseOutcomes(base, head) ==
    { Command(<<"merge-base", base, head>>, "", TRUE),
      Command(<<"merge-base", base, head>>, "\n", FALSE),
      Command(<<"merge-base", base, head>>, "abc123\n", FALSE) }

\* The diffs git may write in SpecRun: none, or one file with an added line
\* and an added blank line.
SmallDiffs == { <<>>, <<HeaderGo, "+func F() {}", "+">> }

\* run()'s revRange, with no "--" on the command line.
revRange == IF Len(cmdline.args) = 1 THEN cmdline.args[1] ELSE ""

\* autoRefMode decided by the positional range alone.
autoRefModeWithoutRange == revRange = ""

\* run()'s autoRefMode
autoRefMode == opts.base = "" /\ opts.head = "" /\ revRange = ""

\* run()'s cliOverrides
cliOverrides ==
    [ZeroConfig EXCEPT !.Include = opts.include, !.Exclude = opts.exclude,
                       !.Empty = opts.empty, !.Sort = opts.sort]

InitRun ==
    /\ customCategories = NoOverrides
    /\ calls = <<>>
    /\ ParseIdle
    /\ pc = "validate"
    /\ cmdline \in Cmdlines
    /\ opts = ParseFlags(cmdline)
    /\ files \in ConfigFiles
    /\ cfg = ZeroConfig
    /\ gitLog = <<>>
    /\ resolveRet = [refRange |-> "", err |-> ""]
    /\ refRange = ""
    /\ worktreeMode = FALSE
    /\ diffExit = ""
    /\ errOut = <<>>
    /\ diff = <<>>
    /\ parsed = <<>>
    /\ filtered = <<>>
    /\ summary = NoSummary
    /\ meta = NoMeta
    /\ rendered = NothingRendered
    /\ exitCode = -1

\* The validation looking at --format before --empty.
RunValidateFormatFirst ==
    /\ pc = "validate"
    /\ IF opts.format # "text" /\ opts.format # "json"
       THEN Fail(2, "Error: --format must be 'text' or 'json', got "
                       \o Quote(opts.format))
       ELSE IF opts.empty # "include" /\ opts.empty # "exclude"
       THEN Fail(2, "Error: --empty must be 'include' or 'exclude', got "
                       \o Quote(opts.empty))
       ELSE IF opts.sort # "churn" /\ opts.sort # "path"
       THEN Fail(2, "Error: --sort must be 'churn' or 'path', got "
                       \o Quote(opts.sort))
       ELSE IF Len(cmdline.args) > 1
       THEN Fail(1, "Error: at most one positional rev-range argument allowed")
       ELSE Goto("config")
    /\ UNCHANGED <<customCategories, calls, parseVars, opts, cfg, diff, parsed,
                   filtered, summary, rendered, meta, gitVars, diffExit>>

\* The validation of --empty, --format and --sort, and the split of args.
RunValidate ==
    /\ pc = "validate"
    /\ IF opts.empty # "include" /\ opts.empty # "exclude"
       THEN Fail(2, "Error: --empty must be 'include' or 'exclude', got "
                       \o Quote(opts.empty))
       ELSE IF opts.format # "text" /\ opts.format # "json"
       THEN Fail(2, "Error: --format must be 'text' or 'json', got "
                       \o Quote(opts.format))
       ELSE IF opts.sort # "churn" /\ opts.sort # "path"
       THEN Fail(2, "Error: --sort must be 'churn' or 'path', got "
                       \o Quote(opts.sort))
       ELSE IF Len(cmdline.args) > 1
       THEN Fail(1, "Error: at most one positional rev-range argument allowed")
       ELSE Goto("config")
    /\ UNCHANGED <<customCategories, calls, parseVars, opts, cfg, diff, parsed,
                   filtered, summary, rendered, meta, gitVars, diffExit>>

\* config.Load(repoRoot, cliOverrides); an error ends the process.
RunLoadConfig ==
    /\ pc = "config"
    /\ LET r == load(files.global, files.repo, cliOverrides)
       IN  IF r.err THEN Fail(2, "Error: loading config") /\ cfg' = cfg
           ELSE Goto("resolve") /\ cfg' = r.cfg
    /\ UNCHANGED <<customCategories, calls, parseVars, opts, diff, parsed,
                   filtered, summary, rendered, meta, gitVars, diffExit>>

\* gitdiff.ResolveRefs up to its fallback chain: --base and --head, or the
\* positional range, return at once.
RunResolve ==
    /\ pc = "resolve"
    /\ IF opts.base # "" /\ opts.head # ""
       THEN /\ resolveRet' = [refRange |-> opts.base \o "..." \o opts.head,
                              err |-> ""]
            /\ refRange' = opts.base \o "..." \o opts.head
            /\ pc' = "worktree"
       ELSE IF revRange # ""
       THEN /\ resolveRet' = [refRange |-> revRange, err |-> ""]
            /\ refRange' = revRange
            /\ pc' = "worktree"
       ELSE /\ pc' = "probe"
            /\ UNCHANGED <<resolveRet, refRange>>
    /\ UNCHANGED <<customCategories, calls, parseVars, opts, cfg, diff, parsed,
                   filtered, summary, rendered, meta, exitCode, cmdline, files,
                   gitLog, worktreeMode, diffExit, errOut>>

\* The loop of ResolveRefs with run() going on, without a range, when the last
\* fallback does not exist.
RunProbeFallsThrough ==
    /\ pc = "probe"
    /\ LET i == Len(gitLog) + 1
           fb == fallbacks[i]
       IN  \E err \in BOOLEAN :
              /\ gitLog' = Append(gitLog,
                                  Command(<<"rev-parse", "--verify", fb.ref>>,
                                          "", err))
              /\ resolveRet' = IF ~err THEN [refRange |-> fb.refRange, err |-> ""]
                               ELSE IF i < Len(fallbacks) THEN resolveRet
                               ELSE [refRange |-> "", err |-> ErrNoBase]
              /\ refRange' = IF ~err THEN fb.refRange ELSE refRange
              /\ pc' = IF err /\ i < Len(fallbacks) THEN "probe" ELSE "worktree"
    /\ UNCHANGED <<customCategories, calls, parseVars, opts, cfg, diff, parsed,
                   filtered, summary, rendered, meta, cmdline, files,
                   worktreeMode, exitCode, diffExit, errOut>>

\* One turn of ResolveRefs' loop: git rev-parse --verify on the next fallback.
\* The first that exists is returned; after the last, the error is returned
\* and run() exits.
RunProbe ==
    /\ pc = "probe"
    /\ LET i == Len(gitLog) + 1
           fb == fallbacks[i]
       IN  \E err \in BOOLEAN :
              /\ gitLog' = Append(gitLog,
                                  Command(<<"rev-parse", "--verify", fb.ref>>,
                                          "", err))
              /\ IF ~err
                 THEN /\ resolveRet' = [refRange |-> fb.refRange, err |-> ""]
                      /\ refRange' = fb.refRange
                      /\ Goto("worktree")
                 ELSE IF i < Len(fallbacks)
                 THEN /\ Goto("probe")
                      /\ UNCHANGED <<resolveRet, refRange>>
                 ELSE /\ resolveRet' = [refRange |-> "", err |-> ErrNoBase]
                      /\ refRange' = ""
                      /\ Fail(1, "Error: " \o ErrNoBase)
    /\ UNCHANGED <<customCategories, calls, parseVars, opts, cfg, diff, parsed,
                   filtered, summary, rendered, meta, cmdline, files,
                   worktreeMode, diffExit>>

\* In auto mode, gitdiff.WorktreeDirty; a dirty tree leads to the merge base.
RunWorktree ==
    /\ pc = "worktree"
    /\ IF ~autoRefMode
       THEN pc' = "diff" /\ gitLog' = gitLog
       ELSE \E c \in StatusOutcomes :
               LET w == WorktreeDirty(c)
                   p == parseRefRange(refRange)
               IN  /\ gitLog' = Append(gitLog, c)
                   /\ pc' = IF ~w.err /\ w.dirty /\ p[1] # "" /\ p[2] # ""
                            THEN "mergebase" ELSE "diff"
    /\ UNCHANGED <<customCategories, calls, parseVars, opts, cfg, diff, parsed,
                   filtered, summary, rendered, meta, exitCode, cmdline, files,
                   resolveRet, refRange, worktreeMode, diffExit, errOut>>

\* gitdiff.MergeBase on the two ends of the range; when it succeeds the merge
\* base becomes the range and worktreeMode is set.
RunMergeBase ==
    /\ pc = "mergebase"
    /\ LET p == parseRefRange(refRange)
       IN  \E c \in MergeBaseOutcomes(p[1], p[2]) :
              LET m == MergeBase(c)
              IN  /\ gitLog' = Append(gitLog, c)
                  /\ refRange' = IF m.err THEN refRange ELSE m.mergeBase
                  /\ worktreeMode' = IF m.err THEN worktreeMode ELSE TRUE
    /\ pc' = "diff"
    /\ UNCHANGED <<customCategories, calls, parseVars, opts, cfg, diff, parsed,
                   filtered, summary, rendered, meta, exitCode, cmdline, files,
                   resolveRet, diffExit, errOut>>

\* gitdiff.RunDiff(opts.runner, refRange, pathspecs) without pathspecs; a
\* command that does not start ends the process.
RunDiff ==
    /\ pc = "diff"
    /\ \E err \in BOOLEAN :
          /\ gitLog' = Append(gitLog,
                              Command(<<"diff", "--no-color", "-U0", "-M", refRange>>,
                                      "", err))
          /\ IF err THEN Fail(1, "Error: running git diff") ELSE Goto("parse")
    /\ UNCHANGED <<customCategories, calls, parseVars, opts, cfg, diff, parsed,
                   filtered, summary, rendered, meta, cmdline, files,
                   resolveRet, refRange, worktreeMode, diffExit>>

RunParseSmall == RunParseFrom(SmallDiffs)

NextRun ==
    \/ RunValidate \/ RunLoadConfig \/ RunResolve \/ RunProbe \/ RunWorktree
    \/ RunMergeBase \/ RunDiff \/ RunParseSmall \/ RunWait \/ RunFilter
    \/ RunSummary \/ RunRender

SpecRun == InitRun /\ [][NextRun]_vars

----------------------------------------------------------------------------
(* Properties of the classifier, checked under SpecClassify *)

\* The rules a call's path matches, on the classifier the call was made on.
CallNormalized(c) == ToSlash(c.path)
CallBase(c) == Base(c.path)
CallExt(c) == ToLower(Ext(Base(c.path)))
MatchesGenerated(c) == isGenerated(customCategories, CallNormalized(c), CallBase(c))
MatchesDocs(c) == isDocs(customCategories, CallNormalized(c), CallExt(c))
MatchesTests(c) == isTests(customCategories, CallNormalized(c), CallBase(c))
MatchesSource(c) == isSource(customCategories, CallExt(c))

CallsOf(path) == {i \in 1..Len(calls) : calls[i].path = path}

\* C4: Classify returns the first category, in the order generated, docs,
\* tests, source, other, whose rules the path matches: a generated match wins
\* over docs, tests and source matches, a docs match over tests and source
\* matches, a tests match over a source match; with no override,
\* vendor/README.md is generated, tests/README.md and docs/example.go are docs
\* and pkg/handler_test.go is tests.
C4_FirstMatchWins ==
    \A i \in 1..Len(calls) :
        LET c == calls[i]
        IN  /\ MatchesGenerated(c) => c.category = Generated
            /\ (~MatchesGenerated(c) /\ MatchesDocs(c)) => c.category = Docs
            /\ (~MatchesGenerated(c) /\ ~MatchesDocs(c) /\ MatchesTests(c))
                  => c.category = Tests
            /\ (~MatchesGenerated(c) /\ ~MatchesDocs(c) /\ ~MatchesTests(c)
                  /\ MatchesSource(c)) => c.category = Source
            /\ (~MatchesGenerated(c) /\ ~MatchesDocs(c) /\ ~MatchesTests(c)
                  /\ ~MatchesSource(c)) => c.category = Other
            /\ (customCategories = NoOverrides /\ c.path = "vendor/README.md")
                  => c.category = Generated
            /\ (customCategories = NoOverrides
                  /\ c.path \in {"tests/README.md", "docs/example.go"})
                  => c.category = Docs
            /\ (customCategories = NoOverrides /\ c.path = "pkg/handler_test.go")
                  => c.category = Tests

\* A path matching generated and docs rules was classified, and so was a path
\* matching docs, tests and source rules but no generated rule.
C4_Witness ==
    /\ \E i \in 1..Len(calls) :
          /\ MatchesGenerated(calls[i]) /\ MatchesDocs(calls[i])
          /\ calls[i].category = Generated
    /\ \E i \in 1..Len(calls) :
          /\ ~MatchesGenerated(calls[i])
          /\ MatchesDocs(calls[i]) /\ MatchesTests(calls[i]) /\ MatchesSource(calls[i])
          /\ calls[i].category = Docs

TableLanguage(path) ==
    LET ext == ToLower(Ext(Base(path)))
    IN  IF ext \in DOMAIN sourceExtensions THEN sourceExtensions[ext] ELSE ""

\* C6: the language of every call is the built-in table's entry for the
\* lowercased extension of the path, or empty when there is none, whatever the
\* category: vendor/errors.go is generated and Go, MAIN.GO is Go, and image.png
\* and README.md have no language.
C6_LanguageFromExtension ==
    \A i \in 1..Len(calls) :
        /\ calls[i].language = TableLanguage(calls[i].path)
        /\ calls[i].path = "vendor/errors.go" => calls[i].language = "Go"
        /\ calls[i].path = "MAIN.GO" => calls[i].language = "Go"
        /\ calls[i].path \in {"image.png", "README.md", "Makefile"}
              => calls[i].language = ""

\* A vendored Go file was classified generated with language Go, and a docs or
\* other path got the empty language.
C6_Witness ==
    /\ \E i \in 1..Len(calls) :
          /\ calls[i].path = "vendor/errors.go"
          /\ calls[i].category = Generated
          /\ calls[i].language = "Go"
    /\ \E i \in 1..Len(calls) :
          /\ calls[i].category \in {Docs, Other}
          /\ calls[i].language = ""

----------------------------------------------------------------------------
(* Properties of the parser, checked under SpecParse *)

IsHeader(line) == HasPrefix(line, "diff --git ")
IsRename(line) == HasPrefix(line, "rename to ")
IsBinaryMarker(line) == HasPrefix(line, "Binary files ")

HeaderPositions(lines) == {i \in 1..Len(lines) : IsHeader(lines[i])}

\* The position of the k-th header line of lines.
NthHeader(lines, k) ==
    CHOOSE i \in HeaderPositions(lines) :
        Cardinality({j \in HeaderPositions(lines) : j <= i}) = k

\* The positions of the lines that follow the header at h, up to the next header.
Segment(lines, h) ==
    {i \in (h + 1)..Len(lines) : \A j \in (h + 1)..i : ~IsHeader(lines[j])}

Returned == parsePc = "returned" /\ ~parseRet.err

\* C7: Parse returns one record per "diff --git " line, in the order of those
\* lines: the k-th record has the path of the k-th header (or of the last
\* rename line of that file) and counts no more lines than the file has '+'
\* and '-' lines, so a file with only metadata or a binary marker has a record
\* with zero counts; while no header has been read there is no record, and the
\* empty stream yields none.
C7_OneRecordPerHeader ==
    /\ Returned =>
          /\ Len(parseRet.stats) = Cardinality(HeaderPositions(input))
          /\ \A k \in 1..Len(parseRet.stats) :
                LET h == NthHeader(input, k)
                    seg == Segment(input, h)
                    renames == {i \in seg : IsRename(input[i])}
                    r == parseRet.stats[k]
                IN  /\ r.Path = IF renames = {} THEN parseDiffHeader(input[h])
                                ELSE SubSeq(input[Max(renames)], 11,
                                            Len(input[Max(renames)]))
                    /\ r.Added <= Cardinality({i \in seg : HasPrefix(input[i], "+")})
                    /\ r.Deleted <= Cardinality({i \in seg : HasPrefix(input[i], "-")})
                    /\ (h < Len(input) /\ IsBinaryMarker(input[h + 1]))
                          => r.Added = 0 /\ r.Deleted = 0
    /\ HeaderPositions(input) = {} =>
          stats = <<>> /\ current = <<>> /\ parseRet.stats = <<>>

\* Parse returned after a stream of a changed line, a header, and a second
\* header followed by a binary marker: two records, the second with no counts.
C7_Witness ==
    /\ Returned
    /\ Len(input) = 4
    /\ ~IsHeader(input[1]) /\ HasPrefix(input[1], "+")
    /\ Cardinality(HeaderPositions(input)) = 2
    /\ IsBinaryMarker(input[Len(input)])
    /\ Len(parseRet.stats) = 2
    /\ parseRet.stats[2].Added = 0 /\ parseRet.stats[2].Deleted = 0

\* C9: a "rename to X" line read after a header makes X the path of that
\* file's one record, whatever path the header gave, and the file's added and
\* deleted lines are counted on it: the stream of old.go renamed to new.go with
\* one deleted and one added line yields the single record new.go, 1, 1, 2.
C9_RenameTargetIsPath ==
    Returned =>
        /\ \A k \in 1..Cardinality(HeaderPositions(input)) :
              LET h == NthHeader(input, k)
                  renames == {i \in Segment(input, h) : IsRename(input[i])}
              IN  renames # {} =>
                     /\ k <= Len(parseRet.stats)
                     /\ parseRet.stats[k].Path =
                           SubSeq(input[Max(renames)], 11, Len(input[Max(renames)]))
        /\ Cardinality({i \in 1..Len(input) : IsRename(input[i])}) > 0
              => Len(parseRet.stats) = Cardinality(HeaderPositions(input))
        /\ input = <<Header2, RenameTo, "-func Old() {}", "+func F() {}">>
              => parseRet.stats =
                    <<[Path |-> "new.go", Added |-> 1, Deleted |-> 1, Churn |-> 2]>>
        /\ input = <<Header1, RenameTo, "+func F() {}">>
              => parseRet.stats =
                    <<[Path |-> "new.go", Added |-> 1, Deleted |-> 0, Churn |-> 1]>>

\* Parse returned one record for a file whose header names main.go and whose
\* rename line names new.go, with a line counted after the rename.
C9_Witness ==
    /\ Returned
    /\ Len(input) = 3
    /\ input[1] = Header1 /\ input[2] = RenameTo /\ HasPrefix(input[3], "+func")
    /\ Len(parseRet.stats) = 1
    /\ parseRet.stats[1].Path = "new.go"
    /\ parseRet.stats[1].Added = 1

\* The line the scanner delivers in this step.
ScannedLine == input'[Len(input')]

\* C10: after a "Binary files " marker, a line that is no header changes
\* neither the counts nor the path of the current record and adds no record;
\* the next header emits the binary file's record and resets the binary state.
C10_BinaryRestIgnored ==
    [][(parsePc = "scan" /\ inBinary /\ input' # input) =>
          IF IsHeader(ScannedLine)
          THEN /\ ~inBinary'
               /\ stats' = Append(stats, [current[1] EXCEPT
                                             !.Churn = current[1].Added
                                                       + current[1].Deleted])
          ELSE /\ stats' = stats
               /\ current' = current
               /\ inBinary']_vars

----------------------------------------------------------------------------
(* Properties of run(), checked under Spec *)

RECURSIVE SumOver(_, _)
\* The sum of f[x] over the x of S.
SumOver(f, S) ==
    IF S = {} THEN 0
    ELSE LET x == CHOOSE y \in S : TRUE
         IN  f[x] + SumOver(f, S \ {x})

Summarised == pc \in {"render", "done"}

\* The category the classifier of this invocation gives a path.
CategoryOf(path) == Classify(cfg.Categories, path).category

\* The positions in filtered of the records of category c.
Survivors(c) == {i \in 1..Len(filtered) : CategoryOf(filtered[i].Path) = c}

\* C1: each record that survived filtering is counted in the total of the one
\* category Classify gives its path, and once in the grand total: every
\* category total is the sum over the survivors of its category, the category
\* totals add up to the grand total in added, deleted, churn and file count,
\* and the grand total's file count is the length of the per-file list.
C1_TotalsPartitionSurvivors ==
    Summarised =>
        LET CT == summary.CategoryTotals
            T == summary.Totals
        IN  /\ \A c \in DOMAIN CT :
                  /\ CT[c].Added = SumOver([i \in Survivors(c) |-> filtered[i].Added],
                                           Survivors(c))
                  /\ CT[c].Deleted = SumOver([i \in Survivors(c) |-> filtered[i].Deleted],
                                             Survivors(c))
                  /\ CT[c].Churn = SumOver([i \in Survivors(c) |-> filtered[i].Churn],
                                           Survivors(c))
                  /\ CT[c].FileCount = Cardinality(Survivors(c))
            /\ \A i \in 1..Len(filtered) : CategoryOf(filtered[i].Path) \in DOMAIN CT
            /\ SumOver([c \in DOMAIN CT |-> CT[c].Added], DOMAIN CT) = T.Added
            /\ SumOver([c \in DOMAIN CT |-> CT[c].Deleted], DOMAIN CT) = T.Deleted
            /\ SumOver([c \in DOMAIN CT |-> CT[c].Churn], DOMAIN CT) = T.Churn
            /\ SumOver([c \in DOMAIN CT |-> CT[c].FileCount], DOMAIN CT) = T.FileCount
            /\ T.FileCount = Len(summary.FileStats)
            /\ Len(summary.FileStats) = Len(filtered)

\* A report was built from two survivors of two categories with lines counted.
C1_Witness ==
    /\ pc = "done"
    /\ Len(filtered) >= 2
    /\ Cardinality(DOMAIN summary.CategoryTotals) >= 2
    /\ summary.Totals.Churn >= 1

\* C2: a category whose surviving records all have zero churn has no key in
\* the summary's CategoryTotals and none in the JSON by_category object.
C2_ZeroChurnCategoryAbsent ==
    Summarised =>
        \A c \in Categories :
            (/\ Survivors(c) # {}
             /\ \A i \in Survivors(c) : filtered[i].Churn = 0)
            => /\ c \notin DOMAIN summary.CategoryTotals
               /\ rendered.format = "json" => c \notin DOMAIN rendered.body.by_category

\* C3: CategoryTotals has a key for a category exactly when a surviving record
\* classifies to it, so a category all of whose records the filter removed
\* has no key, and no key carries a zero file count.
C3_KeyOnlyForSurvivingCategory ==
    Summarised =>
        /\ DOMAIN summary.CategoryTotals \subseteq Categories
        /\ \A c \in Categories :
              c \in DOMAIN summary.CategoryTotals <=> Survivors(c) # {}
        /\ \A c \in DOMAIN summary.CategoryTotals :
              summary.CategoryTotals[c].FileCount >= 1

\* The filter removed every record of a category that was parsed, and the
\* report has keys for other categories but none for that one.
C3_Witness ==
    /\ pc = "done"
    /\ summary.CategoryTotals # NoOverrides
    /\ \E i \in 1..Len(parsed) :
          /\ Survivors(CategoryOf(parsed[i].Path)) = {}
          /\ CategoryOf(parsed[i].Path) \notin DOMAIN summary.CategoryTotals

\* C8: every record Parse returned has churn = added + deleted with added and
\* deleted not negative, under either empty-line policy, and so have every
\* per-file entry and the grand total of the report built from the records.
C8_ChurnIsAddedPlusDeleted ==
    /\ \A i \in 1..Len(parsed) :
          /\ parsed[i].Churn = parsed[i].Added + parsed[i].Deleted
          /\ parsed[i].Added >= 0 /\ parsed[i].Deleted >= 0
    /\ \A i \in 1..Len(summary.FileStats) :
          /\ summary.FileStats[i].Churn =
                summary.FileStats[i].Added + summary.FileStats[i].Deleted
          /\ summary.FileStats[i].Added >= 0 /\ summary.FileStats[i].Deleted >= 0
    /\ summary.Totals.Churn = summary.Totals.Added + summary.Totals.Deleted
    /\ summary.Totals.Added >= 0 /\ summary.Totals.Deleted >= 0

\* A report was built that lists a file with an added and a deleted line.
C8_Witness ==
    /\ pc = "done"
    /\ \E i \in 1..Len(summary.FileStats) :
          /\ summary.FileStats[i].Added >= 1
          /\ summary.FileStats[i].Deleted >= 1
          /\ summary.FileStats[i].Churn >= 2
    /\ summary.Totals.Churn >= 2

----------------------------------------------------------------------------
(* Properties of the line counting, checked under SpecHunks *)

\* The positions of the candidate changed lines of the file whose header is
\* at h: the lines of its section that begin with sign, are no '+++' or '---'
\* line and follow no binary marker of the section.
Candidates(lines, h, sign) ==
    {i \in Segment(lines, h) :
        /\ HasPrefix(lines[i], sign)
        /\ ~HasPrefix(lines[i], "+++")
        /\ ~HasPrefix(lines[i], "---")
        /\ \A j \in (h + 1)..(i - 1) : ~IsBinaryMarker(lines[j])}

\* Whether what follows the line's first character is empty or white space.
BlankChange(line) == TrimSpace(SubSeq(line, 2, Len(line))) = ""

\* C11: under "include" a file's added count is the number of its '+'
\* candidate lines; under "exclude" it is that number less the candidates
\* whose remainder is empty or whitespace-only; so for one diff the "include"
\* count is the "exclude" count plus the number of whitespace-only
\* candidates, and likewise for deleted lines.  Two blank added lines and one
\* non-blank one count 3 under "include" and 1 under "exclude".
C11_EmptyLinePolicy ==
    Returned =>
        LET inc == Parse(input, "include", FALSE).stats
            exc == Parse(input, "exclude", FALSE).stats
            blank(k, sign) ==
                Cardinality({i \in Candidates(input, NthHeader(input, k), sign) :
                                BlankChange(input[i])})
            all(k, sign) ==
                Cardinality(Candidates(input, NthHeader(input, k), sign))
        IN  /\ parseRet.stats = IF emptyMode = "include" THEN inc ELSE exc
            /\ Len(inc) = Len(exc)
            /\ \A k \in 1..Len(parseRet.stats) :
                  /\ inc[k].Added = all(k, "+")
                  /\ inc[k].Deleted = all(k, "-")
                  /\ inc[k].Added = exc[k].Added + blank(k, "+")
                  /\ inc[k].Deleted = exc[k].Deleted + blank(k, "-")
                  /\ parseRet.stats[k].Added =
                        all(k, "+") - IF emptyMode = "include" THEN 0
                                      ELSE blank(k, "+")
                  /\ parseRet.stats[k].Deleted =
                        all(k, "-") - IF emptyMode = "include" THEN 0
                                      ELSE blank(k, "-")
            /\ input = <<Header1, "+", "+", "+func F() {}">> =>
                  parseRet.stats[1].Added = IF emptyMode = "include" THEN 3 ELSE 1

\* Parse returned under "exclude" for a file with a blank added line, a
\* whitespace-only deleted line and an added line with content: one line is
\* counted.
C11_Witness ==
    /\ Returned
    /\ emptyMode = "exclude"
    /\ Len(input) = 4
    /\ input[1] = Header1
    /\ \E i \in 2..4 : input[i] = "+"
    /\ \E i \in 2..4 : input[i] = "- \t"
    /\ \E i \in 2..4 : input[i] = "+func F() {}"
    /\ parseRet.stats = <<[Path |-> "main.go", Added |-> 1, Deleted |-> 0, Churn |-> 1]>>

\* The positions of the hunk lines of the file whose header is at h: the lines
\* of its section that follow the section's first "@@" hunk header.
HunkRegion(lines, h) ==
    {i \in Segment(lines, h) :
        \E j \in (h + 1)..(i - 1) : HasPrefix(lines[j], "@@")}

\* The "--- a/path" and "+++ b/path" lines git writes before a file's hunks.
IsPathAnnotation(line) == HasPrefix(line, "+++ ") \/ HasPrefix(line, "--- ")

\* A text file's section as git writes it: no binary marker, and before the
\* first hunk no '+' or '-' line other than the path annotations.
TextFileSection(lines, h) ==
    /\ \A i \in Segment(lines, h) : ~IsBinaryMarker(lines[i])
    /\ \A i \in Segment(lines, h) \ HunkRegion(lines, h) :
          (HasPrefix(lines[i], "+") \/ HasPrefix(lines[i], "-"))
              => IsPathAnnotation(lines[i])

\* C12: under "include", the record of a text file counts every changed line
\* of its hunks: added is the number of hunk lines that begin with '+' and
\* deleted the number that begin with '-', whatever follows the first
\* character.
C12_EveryHunkLineCounted ==
    (Returned /\ emptyMode = "include") =>
        \A k \in 1..Len(parseRet.stats) :
            LET h == NthHeader(input, k)
                hunk == HunkRegion(input, h)
            IN  TextFileSection(input, h) =>
                   /\ parseRet.stats[k].Added =
                         Cardinality({i \in hunk : HasPrefix(input[i], "+")})
                   /\ parseRet.stats[k].Deleted =
                         Cardinality({i \in hunk : HasPrefix(input[i], "-")})

----------------------------------------------------------------------------
(* Properties of the header parsing, checked under SpecHeaders *)

\* What follows the "diff --git " prefix of a header line.
HeaderRemainder(line) == SubSeq(line, Len("diff --git ") + 1, Len(line))

\* The records of the headers that have no " b/" separator, with the remainder
\* each was read from.
FallbackRecords ==
    {<<k, HeaderRemainder(input[NthHeader(input, k)])>> :
        k \in {j \in 1..Len(parseRet.stats) :
                  ~Contains(input[NthHeader(input, j)], " b/")}}

\* C13 as stated: for a header line without the " b/" separator Parse does
\* not fail and the record's path is all that follows the "diff --git "
\* prefix.
C13_PathIsRemainder ==
    Returned =>
        \A kr \in FallbackRecords : parseRet.stats[kr[1]].Path = kr[2]

\* C13 amended: for a header line without the " b/" separator Parse does not
\* fail; the record's path is all that follows the "diff --git " prefix when
\* that remainder has no space, and otherwise what follows the remainder's
\* first space.
C13_FallbackPath ==
    /\ Returned =>
          /\ Len(parseRet.stats) = Cardinality(HeaderPositions(input))
          /\ \A kr \in FallbackRecords :
                LET rem == kr[2]
                    sp == Index(rem, " ")
                IN  parseRet.stats[kr[1]].Path =
                       IF sp = 0 THEN rem ELSE SubSeq(rem, sp + 1, Len(rem))
    /\ (parsePc = "returned" /\ parseRet.err) =>
          (readFailed \/ (input # <<>> /\ TooLong(input[Len(input)])))

\* Parse returned the records of a one-token header and of a two-token header
\* without " b/": the paths are the token and the second token.
C13_Witness ==
    /\ Returned
    /\ input = <<HeaderOneToken, HeaderNoPrefix>>
    /\ Len(parseRet.stats) = 2
    /\ parseRet.stats[1].Path = "nonsense"
    /\ parseRet.stats[2].Path = "w/main.go"

----------------------------------------------------------------------------
(* Properties of Parse's failure, checked under SpecParse *)

\* C14: Parse returns an error exactly when reading its input failed, whatever
\* lines the input holds, and with an error it returns no records.
C14_ErrorIffReadFails ==
    parsePc = "returned" =>
        /\ parseRet.err <=> readFailed
        /\ parseRet.err => parseRet.stats = <<>>

----------------------------------------------------------------------------
(* Properties of the range resolution, checked under SpecRun *)

IsProbe(c) == c.args[1] = "rev-parse"
IsStatus(c) == c.args[1] = "status"
IsMergeBase(c) == c.args[1] = "merge-base"
IsDiff(c) == c.args[1] = "diff"

\* The revision queries made so far, the other commands, by kind.
Probes == SelectSeq(gitLog, IsProbe)
Statuses == SelectSeq(gitLog, IsStatus)
MergeBases == SelectSeq(gitLog, IsMergeBase)
DiffsStarted == SelectSeq(gitLog, IsDiff)

\* The candidates in the order the resolution tries them.
CandidateOrder == <<"origin/HEAD", "main", "master">>

\* ResolveRefs has returned.
ResolveReturned == resolveRet.refRange # "" \/ resolveRet.err # ""

\* C15: the resolution is first-match-wins.  With --base and --head both
\* given the range is "base...head", a positional range notwithstanding;
\* otherwise a positional range is the range as given; in both cases no
\* revision query is made.  Otherwise origin/HEAD, main and master are
\* queried in that order with git rev-parse --verify, each only after the ones
\* before it failed, and the first that exists gives "<name>...HEAD".
C15_FirstMatchWins ==
    /\ Len(Probes) <= 3
    /\ \A j \in 1..Len(Probes) :
          /\ Probes[j].args = <<"rev-parse", "--verify", CandidateOrder[j]>>
          /\ j < Len(Probes) => Probes[j].err
    /\ ResolveReturned =>
          IF opts.base # "" /\ opts.head # ""
          THEN /\ resolveRet = [refRange |-> opts.base \o "..." \o opts.head,
                                err |-> ""]
               /\ Probes = <<>>
          ELSE IF Len(cmdline.args) = 1 /\ cmdline.args[1] # ""
          THEN /\ resolveRet = [refRange |-> cmdline.args[1], err |-> ""]
               /\ Probes = <<>>
          ELSE /\ Probes # <<>>
               /\ resolveRet.err = "" =>
                     /\ ~Probes[Len(Probes)].err
                     /\ resolveRet.refRange =
                           CandidateOrder[Len(Probes)] \o "...HEAD"

\* A run without --base, --head and positional range went through in a
\* repository without origin/HEAD and with main: two queries were made, the
\* second succeeded, and the range is main...HEAD.
C15_Witness ==
    /\ pc = "done"
    /\ Len(Probes) = 2
    /\ Probes[1].err /\ ~Probes[2].err
    /\ resolveRet.refRange = "main...HEAD"
    /\ cmdline.base = <<>> /\ cmdline.head = <<>> /\ cmdline.args = <<>>

\* C16: when none of origin/HEAD, main and master exists, ResolveRefs returns
\* the empty range and an error that names the three candidates, after one
\* query of each; run() exits with code 1, starts no diff command and renders
\* nothing.  The error is returned in no other case.
C16_NoBaseIsFatal ==
    /\ (Len(Probes) = 3 /\ \A j \in 1..3 : Probes[j].err) =>
          /\ resolveRet.refRange = ""
          /\ \A j \in 1..3 : Contains(resolveRet.err, CandidateOrder[j])
          /\ gitLog = Probes
          /\ pc = "exit" /\ exitCode = 1
          /\ refRange = ""
          /\ DiffsStarted = <<>>
          /\ rendered = NothingRendered
    /\ resolveRet.err # "" => (Len(Probes) = 3 /\ \A j \in 1..3 : Probes[j].err)

\* The three queries failed and the process has exited.
C16_Witness ==
    /\ pc = "exit"
    /\ exitCode = 1
    /\ resolveRet.err # ""
    /\ Len(gitLog) = 3
    /\ \A j \in 1..3 : gitLog[j].err /\ gitLog[j].args[3] = CandidateOrder[j]

\* The status query found changes; the merge-base query gave a commit.
StatusDirty(c) == ~c.err /\ TrimSpace(c.out) # ""
StatusClean(c) == ~c.err /\ TrimSpace(c.out) = ""
MergeBaseFound(c) == ~c.err /\ TrimSpace(c.out) # ""

\* run() is in fully automatic mode: no --base, no --head, no positional range.
AutoMode == opts.base = "" /\ opts.head = "" /\ cmdline.args = <<>>

\* C17 as stated: in fully automatic mode, whenever the working tree has
\* uncommitted changes the range handed to git diff is the merge base of the
\* two detected ends and the head label is WORKTREE; when the tree is clean
\* the detected "<name>...HEAD" is handed on unchanged and the label is HEAD.
C17_DirtyMeansWorktree ==
    (AutoMode /\ DiffsStarted # <<>>) =>
        LET range == DiffsStarted[1].args[5]
            reported == pc \in {"render", "done"}
        IN  /\ StatusDirty(Statuses[1]) =>
                  /\ MergeBases # <<>>
                  /\ MergeBaseFound(MergeBases[1])
                  /\ range = TrimSpace(MergeBases[1].out)
                  /\ reported => meta.Head = Worktree
            /\ StatusClean(Statuses[1]) =>
                  /\ range = resolveRet.refRange
                  /\ reported => meta.Head = "HEAD"

\* C17 amended: in fully automatic mode, when the status query reports
\* changes and the merge-base query of the two detected ends gives a commit,
\* that commit is the range handed to git diff and the head label is
\* WORKTREE; in every other case (a clean tree, a failed status query, a
\* merge-base query that fails or gives nothing) the detected "<name>...HEAD"
\* is handed on unchanged and the head label is HEAD.  Outside automatic mode
\* neither query is made.
C17_WorktreeMode ==
    /\ (AutoMode /\ DiffsStarted # <<>>) =>
          LET range == DiffsStarted[1].args[5]
              reported == pc \in {"render", "done"}
              name == CandidateOrder[Len(Probes)]
          IN  /\ Len(Statuses) = 1
              /\ Len(MergeBases) = IF StatusDirty(Statuses[1]) THEN 1 ELSE 0
              /\ IF StatusDirty(Statuses[1]) /\ MergeBaseFound(MergeBases[1])
                 THEN /\ MergeBases[1].args = <<"merge-base", name, "HEAD">>
                      /\ range = TrimSpace(MergeBases[1].out)
                      /\ worktreeMode
                      /\ reported => meta.Head = Worktree /\ meta.Base = range
                 ELSE /\ range = name \o "...HEAD"
                      /\ range = resolveRet.refRange
                      /\ ~worktreeMode
                      /\ reported => meta.Head = "HEAD" /\ meta.Base = name
    /\ ~AutoMode => (Statuses = <<>> /\ MergeBases = <<>> /\ ~worktreeMode)

\* A run in automatic mode on a dirty tree went through: git diff was given
\* the merge base and the head label is WORKTREE.
C17_Witness ==
    /\ pc = "done"
    /\ AutoMode
    /\ Statuses # <<>> /\ StatusDirty(Statuses[1])
    /\ MergeBases # <<>> /\ MergeBases[1].args = <<"merge-base", "main", "HEAD">>
    /\ DiffsStarted # <<>> /\ DiffsStarted[1].args[5] = "abc123"
    /\ meta.Head = Worktree

----------------------------------------------------------------------------
(* Properties of the filtering, checked under Spec *)

\* The elements of a sequence.
Elements(seq) == {seq[i] : i \in 1..Len(seq)}

\* The record's path matches an include glob or there is none, matches no
\* exclude glob, and its category is in --category's list or there is none.
Passes(fs) ==
    /\ cfg.Include = <<>>
          \/ \E g \in Elements(cfg.Include) : DoublestarMatch(g, fs.Path)
    /\ \A g \in Elements(cfg.Exclude) : ~DoublestarMatch(g, fs.Path)
    /\ opts.category = <<>>
          \/ CategoryOf(fs.Path) \in Elements(opts.category)

\* The records whose path is one of paths.
OfPaths(records, paths) ==
    SelectSeq(records, LAMBDA fs : fs.Path \in paths)

\* C18: Filter returns the records of its input, unchanged and in their
\* order, that match at least one include glob (any record when there is
\* none), match no exclude glob, and whose category is in the category list
\* when that is not empty; with the three lists empty it returns its input.
\* Include globs **/*.go and *.md with the exclude glob README.* leave main.go
\* of main.go, README.md and image.png, and the two .go files of a diff that
\* also lists main_test.go, go.sum and Makefile.
C18_FilterLaw ==
    pc \in {"summary", "render", "done"} =>
        /\ filtered = SelectSeq(parsed, Passes)
        /\ (cfg.Include = <<>> /\ cfg.Exclude = <<>> /\ opts.category = <<>>)
              => filtered = parsed
        /\ (cfg.Include = <<"**/*.go", "*.md">> /\ opts.category = <<>>) =>
              filtered = OfPaths(parsed, IF cfg.Exclude = <<"README.*">>
                                         THEN {"main.go", "main_test.go"}
                                         ELSE {"main.go", "main_test.go",
                                               "README.md"})

\* Filter ran with two include globs and an exclude glob on the records of
\* README.md, image.png and main.go and kept main.go alone.
C18_Witness ==
    /\ pc = "done"
    /\ cfg.Include = <<"**/*.go", "*.md">>
    /\ cfg.Exclude = <<"README.*">>
    /\ Len(parsed) = 3
    /\ {parsed[i].Path : i \in 1..3} = {"main.go", "README.md", "image.png"}
    /\ Len(filtered) = 1
    /\ filtered[1].Path = "main.go"

----------------------------------------------------------------------------
(* Properties of the settings, checked under SpecRun *)

\* The value a setting has by the documented precedence: the flag when it was
\* given, else the repo file's value when it sets one, else the global
\* file's, else the built-in default.
ByPrecedence(flagGiven, flagValue, repoSet, repoValue, globalSet, globalValue,
             default) ==
    IF flagGiven THEN flagValue
    ELSE IF files.repo.state = "present" /\ repoSet THEN repoValue
    ELSE IF files.global.state = "present" /\ globalSet THEN globalValue
    ELSE default

EffectiveEmpty ==
    ByPrecedence(cmdline.empty # <<>>, opts.empty,
                 files.repo.cfg.Empty # "", files.repo.cfg.Empty,
                 files.global.cfg.Empty # "", files.global.cfg.Empty,
                 "exclude")

EffectiveSort ==
    ByPrecedence(cmdline.sort # <<>>, opts.sort,
                 files.repo.cfg.Sort # "", files.repo.cfg.Sort,
                 files.global.cfg.Sort # "", files.global.cfg.Sort,
                 "churn")

EffectiveInclude ==
    ByPrecedence(cmdline.include # <<>>, opts.include,
                 files.repo.cfg.Include # <<>>, files.repo.cfg.Include,
                 files.global.cfg.Include # <<>>, files.global.cfg.Include,
                 <<>>)

EffectiveExclude ==
    ByPrecedence(cmdline.exclude # <<>>, opts.exclude,
                 files.repo.cfg.Exclude # <<>>, files.repo.cfg.Exclude,
                 files.global.cfg.Exclude # <<>>, files.global.cfg.Exclude,
                 <<>>)

\* config.Load has returned a configuration.
ConfigLoaded == cfg # ZeroConfig

\* C19: an empty-line mode other than "include" and "exclude" is rejected,
\* whether it comes from the --empty flag or from the resolved settings: the
\* invocation gets no further than the loading of the configuration, runs no
\* git command, counts no record, renders nothing, and exits with code 2
\* (with code 1 when there are too many positional arguments).
C19_InvalidModeRejected ==
    EffectiveEmpty \notin {"include", "exclude"} =>
        /\ pc \in {"validate", "config", "exit"}
        /\ (pc = "exit" /\ Len(cmdline.args) <= 1) => exitCode = 2
        /\ gitLog = <<>>
        /\ parsed = <<>>
        /\ rendered = NothingRendered

\* C20: once loaded, the configuration has for empty, sort, include and
\* exclude the value the precedence CLI flag, repo file, global file, default
\* gives: a file's value whenever the flag was not given, the flag's value
\* whenever it was.
C20_SettingsPrecedence ==
    ConfigLoaded =>
        /\ cfg.Empty = EffectiveEmpty
        /\ cfg.Sort = EffectiveSort
        /\ cfg.Include = EffectiveInclude
        /\ cfg.Exclude = EffectiveExclude

----------------------------------------------------------------------------
(* Properties of the category filter, checked under Spec *)

\* C21: with a non-empty --category list, every record of the report's
\* per-file list has a category of the list, and the per-category totals (and
\* the JSON report's by_category) have keys of the list only: the aggregation
\* reports for a record the category the filter kept it for.
C21_ReportedCategoriesListed ==
    (Summarised /\ opts.category # <<>>) =>
        /\ \A i \in 1..Len(summary.FileStats) :
              /\ summary.FileStats[i].Category \in Elements(opts.category)
              /\ summary.FileStats[i].Path = filtered[i].Path
        /\ DOMAIN summary.CategoryTotals \subseteq Elements(opts.category)
        /\ (pc = "done" /\ rendered.format = "json") =>
              DOMAIN rendered.body.by_category \subseteq Elements(opts.category)

\* A report was written for --category docs and other with an override that
\* makes png a docs extension: image.png is listed, as docs, and README.md.
C21_Witness ==
    /\ pc = "done"
    /\ opts.category = <<"docs", "other">>
    /\ Len(summary.FileStats) = 2
    /\ \E i \in 1..2 : /\ summary.FileStats[i].Path = "image.png"
                       /\ summary.FileStats[i].Category = "docs"
    /\ \E i \in 1..2 : summary.FileStats[i].Path = "README.md"
    /\ DOMAIN summary.CategoryTotals = {"docs"}

----------------------------------------------------------------------------
(* Properties of run()'s failures, checked under SpecRun *)

ResolveFailed == resolveRet.err # ""
DiffStartFailed == DiffsStarted # <<>> /\ DiffsStarted[1].err
ParseFailed == parseRet.err
WaitFailed == diffExit = "failed"

\* C22: a failure of a stage is fatal at once.  Once the resolution of the
\* range has failed, git diff could not be started, Parse has returned an
\* error, or git diff has ended with an error, run() has exited with code 1
\* after one message on standard error, no later stage has run (no git command
\* after a failed resolution, no parsing after a failed start, no Wait after a
\* failed Parse, no filtering and no summary after any of them), no command
\* was run twice, and nothing was written to standard output.
C22_FailureIsFatal ==
    /\ (ResolveFailed \/ DiffStartFailed \/ ParseFailed \/ WaitFailed) =>
          /\ pc = "exit"
          /\ exitCode = 1
          /\ Len(errOut) = 1
          /\ filtered = <<>>
          /\ summary = NoSummary
          /\ meta = NoMeta
          /\ rendered = NothingRendered
    /\ ResolveFailed =>
          /\ gitLog = Probes
          /\ diff = <<>> /\ diffExit = ""
    /\ DiffStartFailed =>
          /\ gitLog[Len(gitLog)] = DiffsStarted[1]
          /\ diff = <<>> /\ parsed = <<>> /\ ~readFailed /\ diffExit = ""
    /\ ParseFailed => (parsed = <<>> /\ diffExit = "")
    /\ Len(Probes) <= 3
    /\ Len(Statuses) <= 1
    /\ Len(MergeBases) <= 1
    /\ Len(DiffsStarted) <= 1

\* git diff ended with an error after its output was parsed into a record:
\* the process has exited with code 1 and has written no report.
C22_Witness ==
    /\ WaitFailed
    /\ parsed # <<>>
    /\ pc = "exit"
    /\ exitCode = 1
    /\ errOut = <<"Error: git diff failed">>
    /\ rendered = NothingRendered

----------------------------------------------------------------------------
(* Properties of the report's labels, checked under SpecRun *)

\* The two ends of a range: what stands before and after the first "...",
\* else before and after the first "..", else the range and nothing.
EndsOf(r) ==
    LET sep == IF Contains(r, "...") THEN "..."
               ELSE IF Contains(r, "..") THEN ".." ELSE ""
        at == Index(r, sep)
    IN  IF sep = "" THEN <<r, "">>
        ELSE <<SubSeq(r, 1, at - 1), SubSeq(r, at + Len(sep), Len(r))>>

\* C23: the report's base and head labels are the range handed to git diff
\* split at its first "...", else at its first "..", else the whole range and
\* the empty head (a head label that worktree mode replaces); so with --base B
\* and --head H the labels are B and H, the range a..b...c has the labels a..b
\* and c, and the single revision HEAD has the labels HEAD and "".
C23_LabelsSplitRange ==
    (Summarised /\ DiffsStarted # <<>>) =>
        LET range == DiffsStarted[1].args[5]
        IN  /\ meta.Base = EndsOf(range)[1]
            /\ ~worktreeMode => meta.Head = EndsOf(range)[2]
            /\ (opts.base # "" /\ opts.head # "") =>
                  (meta.Base = opts.base /\ meta.Head = opts.head)
            /\ range = "a..b...c" => (meta.Base = "a..b" /\ meta.Head = "c")
            /\ range = "v1..v2" => (meta.Base = "v1" /\ meta.Head = "v2")
            /\ range = "HEAD" => (meta.Base = "HEAD" /\ meta.Head = "")

\* A report was written for --base v1 --head v2: the labels are v1 and v2.
C23_Witness ==
    /\ pc = "done"
    /\ cmdline.base = <<"v1">> /\ cmdline.head = <<"v2">>
    /\ DiffsStarted # <<>> /\ DiffsStarted[1].args[5] = "v1...v2"
    /\ meta.Base = "v1" /\ meta.Head = "v2"

----------------------------------------------------------------------------
(* Properties of the category overrides, checked under SpecClassify *)

\* The place of a category in the order generated, docs, tests, source, other.
Rank(category) ==
    CASE category = Generated -> 1
      [] category = Docs -> 2
      [] category = Tests -> 3
      [] category = Source -> 4
      [] OTHER -> 5

\* The filename of a path: what follows its last slash.
FileOf(path) == SubSeq(path, LastIndex(path, "/") + 1, Len(path))

\* The extension of a filename without its dot, lowercased; "none" stands for
\* a filename without a dot.
DotlessExt(file) ==
    IF Contains(file, ".")
    THEN ToLower(SubSeq(file, LastIndex(file, ".") + 1, Len(file)))
    ELSE "none"

\* pattern matches path as a glob on the filename.
GlobForm(pattern, path) == Match(pattern, FileOf(path))

\* pattern names a directory and path lies in it, at the root or deeper.
DirectoryForm(pattern, path) ==
    /\ pattern # "" /\ SubSeq(pattern, Len(pattern), Len(pattern)) = "/"
    /\ \E i \in 1..(Len(path) - Len(pattern) + 1) :
          /\ i = 1 \/ SubSeq(path, i - 1, i - 1) = "/"
          /\ SubSeq(path, i, i + Len(pattern) - 1) = pattern

\* pattern is plain text, names no directory and occurs in path.
SubstringForm(pattern, path) ==
    /\ \A i \in 1..Len(pattern) : SubSeq(pattern, i, i) \notin {"*", "?", "["}
    /\ pattern = "" \/ SubSeq(pattern, Len(pattern), Len(pattern)) # "/"
    /\ \E i \in 1..(Len(path) - Len(pattern) + 1) :
          SubSeq(path, i, i + Len(pattern) - 1) = pattern

\* e is the extension of path, whatever the case and with or without its dot.
ExtensionForm(e, path) ==
    DotlessExt(FileOf(path)) =
        ToLower(IF e # "" /\ Head(e) = "." THEN Tail(e) ELSE e)

\* The override cc matches path in one of the forms.
OverrideMatches(cc, path) ==
    \/ \E i \in 1..Len(cc.Patterns) :
          \/ GlobForm(cc.Patterns[i], path)
          \/ DirectoryForm(cc.Patterns[i], path)
          \/ SubstringForm(cc.Patterns[i], path)
    \/ \E i \in 1..Len(cc.Extensions) : ExtensionForm(cc.Extensions[i], path)

\* The categories whose check consults the override through matchesCustom.
PatternCategories == {Generated, Docs, Tests}

----------------------------------------------------------------------------
(* Properties of the text summary, checked under Spec *)

\* The labels of the category lines, in the order they must appear.
DisplayOrder == <<"Documentation", "Tests", "Source", "Generated", "Uncategorized">>

\* The category a label stands for.
KeyOf(label) ==
    CASE label = "Documentation" -> Docs
      [] label = "Tests" -> Tests
      [] label = "Source" -> Source
      [] label = "Generated" -> Generated
      [] OTHER -> Other

\* The place of a label in DisplayOrder (0 for any other label).
PlaceOf(label) ==
    IF \E k \in 1..Len(DisplayOrder) : DisplayOrder[k] = label
    THEN CHOOSE k \in 1..Len(DisplayOrder) : DisplayOrder[k] = label
    ELSE 0

\* The categories of the summary with non-zero churn.
Churning == {k \in DOMAIN summary.CategoryTotals : summary.CategoryTotals[k].Churn # 0}

TextWritten == pc = "done" /\ rendered.format = "text"

\* C25: the text summary written has one line for each category of the summary
\* with non-zero churn and for no other, in the order Documentation, Tests,
\* Source, Generated, Uncategorized, each with its category's totals, and then
\* the Total line with the overall totals as its last line; a summary without
\* categories is the Total line alone.
C25_TextSummaryLines ==
    TextWritten =>
        LET body == rendered.body
            n == Len(body)
        IN  /\ n = Cardinality(Churning) + 1
            /\ body[n] = [label |-> "Total", total |-> summary.Totals]
            /\ \A i \in 1..(n - 1) :
                  /\ PlaceOf(body[i].label) # 0
                  /\ KeyOf(body[i].label) \in Churning
                  /\ body[i].total = summary.CategoryTotals[KeyOf(body[i].label)]
            /\ \A i, j \in 1..(n - 1) :
                  i < j => PlaceOf(body[i].label) < PlaceOf(body[j].label)
            /\ DOMAIN summary.CategoryTotals = {} => body = <<body[n]>>

\* A text summary was written for a diff listing generated, source, tests and
\* docs files with churn and an unchanged file of category other.
C25_Witness ==
    /\ TextWritten
    /\ Other \in DOMAIN summary.CategoryTotals
    /\ summary.CategoryTotals[Other].Churn = 0
    /\ Len(rendered.body) = 5
    /\ rendered.body[1].label = "Documentation"
    /\ rendered.body[2].label = "Tests"
    /\ rendered.body[3].label = "Source"
    /\ rendered.body[4].label = "Generated"
    /\ rendered.body[5].label = "Total"

----------------------------------------------------------------------------
(* Properties of the destination path, checked under SpecHeaders *)

\* The header line git writes for the paths P and Q.
HeaderOf(P, Q) == "diff --git a/" \o P \o " b/" \o Q

\* Files changed in place: git writes the path on both sides of the header.
UnrenamedFiles == {"main.go", "my file.go", "x b/y"}

\* C26: for every header line 'diff --git a/P b/Q' of a file changed in place
\* (P = Q) the record's path is Q, also when the path holds a space (my file.go)
\* or the text " b/" (x b/y).
C26_RecordHasDestination ==
    Returned =>
        \A k \in 1..Len(parseRet.stats) :
            \A Q \in UnrenamedFiles :
                input[NthHeader(input, k)] = HeaderOf(Q, Q)
                    => parseRet.stats[k].Path = Q

----------------------------------------------------------------------------
(* Properties of a lone --base or --head, checked under SpecRun *)

\* Exactly one of --base and --head has a value.
OneEndGiven == (opts.base = "") # (opts.head = "")

\* C27: with exactly one of --base and --head given, ResolveRefs returns what
\* it returns without them, the positional range as given or else the first
\* existing candidate's "<name>...HEAD" (or the error after three failed
\* queries), and the range is handed to git diff unchanged: no status and no
\* merge-base command is run, worktree mode stays off and the head label is
\* the head of the range, never WORKTREE.
C27_LoneEndIgnored ==
    OneEndGiven =>
        /\ Statuses = <<>> /\ MergeBases = <<>>
        /\ ~worktreeMode
        /\ ResolveReturned =>
              IF Len(cmdline.args) = 1
              THEN resolveRet = [refRange |-> cmdline.args[1], err |-> ""]
                      /\ Probes = <<>>
              ELSE /\ Probes # <<>>
                   /\ resolveRet =
                         IF Probes[Len(Probes)].err
                         THEN [refRange |-> "", err |-> ErrNoBase]
                         ELSE [refRange |-> CandidateOrder[Len(Probes)] \o "...HEAD",
                               err |-> ""]
        /\ \A i \in 1..Len(DiffsStarted) :
              DiffsStarted[i].args[5] = resolveRet.refRange
        /\ Summarised =>
              /\ meta.Head # Worktree
              /\ meta.Head = EndsOf(resolveRet.refRange)[2]
              /\ meta.Base = EndsOf(resolveRet.refRange)[1]

\* A run with --base v1 alone went through: the range is that of the first
\* candidate, origin/HEAD...HEAD, and the labels are origin/HEAD and HEAD.
C27_Witness ==
    /\ pc = "done"
    /\ cmdline.base = <<"v1">> /\ cmdline.head = <<>> /\ cmdline.args = <<>>
    /\ Len(Probes) = 1 /\ ~Probes[1].err
    /\ Len(DiffsStarted) = 1
    /\ DiffsStarted[1].args[5] = "origin/HEAD...HEAD"
    /\ meta.Base = "origin/HEAD" /\ meta.Head = "HEAD"

----------------------------------------------------------------------------
(* Properties of the failed queries of automatic mode, checked under SpecRun *)

\* In automatic mode the status query failed, or the merge-base query failed
\* or wrote nothing.
QueryFailed ==
    /\ AutoMode
    /\ \/ Statuses # <<>> /\ Statuses[1].err
       \/ MergeBases # <<>> /\ ~MergeBaseFound(MergeBases[1])

\* The messages of the steps that follow the two queries.
LaterMessages ==
    {"Error: running git diff", "Error: parsing diff", "Error: git diff failed"}

\* C28: in automatic mode a status query that fails, or a merge-base query
\* that fails or writes nothing, ends nothing and prints nothing: run() goes on
\* to git diff with the detected "<name>...HEAD", worktree mode off, and the
\* report's labels are <name> and HEAD; the process exits only at a later step
\* with that step's message.  Worktree mode is on only after a status query
\* that reported changes and a merge-base query that gave a commit.
C28_QueryFailureTolerated ==
    /\ QueryFailed =>
          LET name == CandidateOrder[Len(Probes)]
          IN  /\ ~worktreeMode
              /\ refRange = name \o "...HEAD"
              /\ pc \in {"diff", "parse", "wait", "filter", "summary", "render",
                         "done", "exit"}
              /\ pc = "exit" =>
                    /\ DiffsStarted # <<>>
                    /\ Len(errOut) = 1 /\ errOut[1] \in LaterMessages
              /\ pc # "exit" => errOut = <<>>
              /\ \A i \in 1..Len(DiffsStarted) :
                    DiffsStarted[i].args[5] = name \o "...HEAD"
              /\ Summarised => (meta.Base = name /\ meta.Head = "HEAD")
    /\ worktreeMode =>
          /\ AutoMode
          /\ Len(Statuses) = 1 /\ StatusDirty(Statuses[1])
          /\ Len(MergeBases) = 1 /\ MergeBaseFound(MergeBases[1])

\* A run in automatic mode whose status query failed went through with exit
\* code 0, the range main...HEAD and nothing on the error output.
C28_Witness ==
    /\ pc = "done" /\ exitCode = 0
    /\ AutoMode
    /\ Len(Statuses) = 1 /\ Statuses[1].err
    /\ MergeBases = <<>>
    /\ Len(DiffsStarted) = 1 /\ DiffsStarted[1].args[5] = "main...HEAD"
    /\ errOut = <<>>
    /\ meta.Base = "main" /\ meta.Head = "HEAD"

----------------------------------------------------------------------------
(* Properties of overrides against the built-in rules, checked under
   SpecClassify *)

\* The category the path gets from a classifier without overrides.
BuiltInCategory(path) == Classify(NoOverrides, path).category

\* C29: under every override set a path's category comes no later in the order
\* generated, docs, tests, source, other than its category without overrides,
\* and a path that is generated without overrides is generated: vendor/README.md
\* and go.sum are generated under every override set, and README.md is never
\* below docs.
C29_OverridesOnlyRaise ==
    \A i \in 1..Len(calls) :
        LET c == calls[i]
        IN  /\ Rank(c.category) <= Rank(BuiltInCategory(c.path))
            /\ BuiltInCategory(c.path) = Generated => c.category = Generated
            /\ c.path \in {"vendor/README.md", "go.sum", "vendor/errors.go"}
                  => c.category = Generated
            /\ c.path = "README.md" => c.category \in {Generated, Docs}

\* Under overrides of generated and docs, main.go was raised from source to
\* generated and vendor/README.md, which the docs override matches, stayed
\* generated.
C29_Witness ==
    /\ DOMAIN customCategories = {Generated, Docs}
    /\ \E i, j \in 1..Len(calls) :
          /\ calls[i].path = "main.go" /\ calls[i].category = Generated
          /\ BuiltInCategory("main.go") = Source
          /\ calls[j].path = "vendor/README.md" /\ calls[j].category = Generated
          /\ OverrideMatches(customCategories[Docs], "vendor/README.md")

----------------------------------------------------------------------------
(* Properties of the validation of the command line, checked under SpecRun *)

\* The first of --empty, --format and --sort, in that order, whose value is
\* not one of the two allowed; "" when all three are valid.
FirstInvalid ==
    IF opts.empty \notin {"include", "exclude"} THEN "--empty"
    ELSE IF opts.format \notin {"text", "json"} THEN "--format"
    ELSE IF opts.sort \notin {"churn", "path"} THEN "--sort"
    ELSE ""

\* Nothing but the validation has run: no configuration was loaded, no git
\* command issued, nothing parsed and no report written.
OnlyValidated ==
    /\ pc \in {"validate", "exit"}
    /\ cfg = ZeroConfig
    /\ gitLog = <<>>
    /\ parsePc = "idle"
    /\ summary = NoSummary /\ rendered = NothingRendered

\* C30: with an invalid --empty, --format or --sort value the process ends
\* with exit code 2 and the message of the first invalid flag in that order,
\* having loaded no configuration, issued no git command and written no
\* report; with valid values and more than one positional argument it ends
\* with exit code 1, also before any git command.
C30_ValidationComesFirst ==
    /\ FirstInvalid # "" =>
          /\ OnlyValidated
          /\ pc = "exit" =>
                /\ exitCode = 2
                /\ Len(errOut) = 1
                /\ HasPrefix(errOut[1], "Error: " \o FirstInvalid \o " must be ")
    /\ (FirstInvalid = "" /\ Len(cmdline.args) > 1) =>
          /\ OnlyValidated
          /\ pc = "exit" =>
                /\ exitCode = 1
                /\ errOut = <<"Error: at most one positional rev-range argument allowed">>

\* The process ended on --empty all given with --format xml, --sort size and
\* two positional arguments: exit code 2 and the message about --empty.
C30_Witness ==
    /\ pc = "exit" /\ exitCode = 2
    /\ opts.empty = "all" /\ opts.format = "xml" /\ opts.sort = "size"
    /\ Len(cmdline.args) = 2
    /\ errOut = <<"Error: --empty must be 'include' or 'exclude', got \"all\"">>
    /\ gitLog = <<>> /\ cfg = ZeroConfig /\ rendered = NothingRendered

====
